---------------------------- MODULE Spec2Model ----------------------------
(***************************************************************************)
(* Model of the offline schema-dump parser of mm-ready                     *)
(* (internal/parser/parser.go, internal/parser/types.go).                  *)
(*                                                                         *)
(* Text.  A Go string is modelled as a sequence of atoms.  An atom is a    *)
(* TLA+ string holding either one whitespace character, one punctuation    *)
(* character, or one maximal run of word characters [0-9A-Za-z_].  The     *)
(* code only ever cuts a string at whitespace, at punctuation or at the    *)
(* border of a \w run, so every operation of the parser is an operation on *)
(* atom sequences.  Values the parser stores in the model (names, types,   *)
(* expressions) are stored flattened back into one string (Flat).          *)
(***************************************************************************)
EXTENDS Integers, Sequences, FiniteSets, TLC

\* ------------------------------------------------------------------ atoms

\* \s of the regular expressions, and the characters strings.TrimSpace cuts
WS == {" ", "\t", "\n"}

\* the punctuation characters that occur in the modelled inputs
Punct == {"(", ")", ",", ";", ".", "\"", "'", "$", "=", "-", ":", ">", "+"}

\* \w+ : an atom that is a run of word characters
IsWord(a) == a \notin (WS \cup Punct)

\* [\w"]  : the character class of the identifier patterns
IsIdentAtom(a) == IsWord(a) \/ a = "\""

\* strings.ToUpper on one atom, for the words of the modelled inputs that are
\* not already upper case
UpperMap ==
  ("a" :> "A") @@ ("add" :> "ADD") @@ ("alter" :> "ALTER") @@
  ("amount" :> "AMOUNT") @@ ("app" :> "APP") @@ ("as" :> "AS") @@
  ("b" :> "B") @@ ("bad" :> "BAD") @@ ("big" :> "BIG") @@
  ("bigint" :> "BIGINT") @@ ("body" :> "BODY") @@ ("btree" :> "BTREE") @@
  ("by" :> "BY") @@ ("c" :> "C") @@ ("cascade" :> "CASCADE") @@
  ("check" :> "CHECK") @@ ("color" :> "COLOR") @@ ("column" :> "COLUMN") @@
  ("constraint" :> "CONSTRAINT") @@ ("create" :> "CREATE") @@
  ("customer_id" :> "CUSTOMER_ID") @@ ("customers" :> "CUSTOMERS") @@
  ("cycle" :> "CYCLE") @@ ("d" :> "D") @@ ("database" :> "DATABASE") @@
  ("default" :> "DEFAULT") @@ ("delete" :> "DELETE") @@ ("done" :> "DONE") @@
  ("down_seq" :> "DOWN_SEQ") @@ ("dump" :> "DUMP") @@ ("enum" :> "ENUM") @@
  ("f" :> "F") @@ ("false" :> "FALSE") @@ ("from" :> "FROM") @@
  ("g" :> "G") @@ ("gist" :> "GIST") @@ ("h" :> "H") @@ ("hash" :> "HASH") @@
  ("hello" :> "HELLO") @@ ("i_seq" :> "I_SEQ") @@ ("id" :> "ID") @@
  ("in" :> "IN") @@ ("increment" :> "INCREMENT") @@
  ("information_schema" :> "INFORMATION_SCHEMA") @@ ("insert" :> "INSERT") @@
  ("integer" :> "INTEGER") @@ ("k" :> "K") @@ ("key" :> "KEY") @@
  ("large" :> "LARGE") @@ ("m" :> "M") @@ ("maxvalue" :> "MAXVALUE") @@
  ("medium" :> "MEDIUM") @@ ("minvalue" :> "MINVALUE") @@ ("mk" :> "MK") @@
  ("mkext" :> "MKEXT") @@ ("mkidx" :> "MKIDX") @@ ("mkpk" :> "MKPK") @@
  ("mkseq" :> "MKSEQ") @@ ("mood" :> "MOOD") @@ ("n" :> "N") @@
  ("n_pkey" :> "N_PKEY") @@ ("nextval" :> "NEXTVAL") @@ ("no" :> "NO") @@
  ("node" :> "NODE") @@ ("node_id" :> "NODE_ID") @@
  ("node_pkey" :> "NODE_PKEY") @@ ("none" :> "NONE") @@
  ("nosuch" :> "NOSUCH") @@ ("note" :> "NOTE") @@ ("numeric" :> "NUMERIC") @@
  ("ok" :> "OK") @@ ("on" :> "ON") @@ ("only" :> "ONLY") @@
  ("orders" :> "ORDERS") @@
  ("orders_customer_fkey" :> "ORDERS_CUSTOMER_FKEY") @@
  ("orders_customer_idx" :> "ORDERS_CUSTOMER_IDX") @@
  ("orders_customer_key" :> "ORDERS_CUSTOMER_KEY") @@
  ("orders_id_check" :> "ORDERS_ID_CHECK") @@
  ("orders_id_key" :> "ORDERS_ID_KEY") @@
  ("orders_id_seq" :> "ORDERS_ID_SEQ") @@ ("orders_log" :> "ORDERS_LOG") @@
  ("orders_pkey" :> "ORDERS_PKEY") @@ ("other" :> "OTHER") @@
  ("pg_catalog" :> "PG_CATALOG") @@ ("pg_dump" :> "PG_DUMP") @@
  ("pg_toast" :> "PG_TOAST") @@ ("pg_trgm" :> "PG_TRGM") @@
  ("plpgsql" :> "PLPGSQL") @@ ("price" :> "PRICE") @@
  ("primary" :> "PRIMARY") @@ ("progress" :> "PROGRESS") @@
  ("public" :> "PUBLIC") @@ ("r" :> "R") @@ ("red" :> "RED") @@
  ("references" :> "REFERENCES") @@ ("regclass" :> "REGCLASS") @@
  ("s" :> "S") @@ ("s_seq" :> "S_SEQ") @@ ("sad" :> "SAD") @@
  ("sales" :> "SALES") @@ ("search_path" :> "SEARCH_PATH") @@
  ("select" :> "SELECT") @@ ("sequence" :> "SEQUENCE") @@ ("set" :> "SET") @@
  ("set_config" :> "SET_CONFIG") @@ ("size" :> "SIZE") @@
  ("small" :> "SMALL") @@ ("smallint" :> "SMALLINT") @@
  ("spaced" :> "SPACED") @@ ("spock" :> "SPOCK") @@ ("sql" :> "SQL") @@
  ("start" :> "START") @@ ("status" :> "STATUS") @@ ("t" :> "T") @@
  ("t_a_check" :> "T_A_CHECK") @@ ("t_b_fkey" :> "T_B_FKEY") @@
  ("t_b_idx" :> "T_B_IDX") @@ ("t_idx" :> "T_IDX") @@
  ("t_pkey" :> "T_PKEY") @@ ("table" :> "TABLE") @@ ("text" :> "TEXT") @@
  ("twice" :> "TWICE") @@ ("type" :> "TYPE") @@ ("u" :> "U") @@
  ("unique" :> "UNIQUE") @@ ("update" :> "UPDATE") @@ ("usd" :> "USD") @@
  ("version" :> "VERSION") @@ ("void" :> "VOID") @@ ("with" :> "WITH") @@
  ("world" :> "WORLD") @@ ("x" :> "X") @@ ("x_idx" :> "X_IDX") @@
  ("x_pkey" :> "X_PKEY") @@ ("z_seq" :> "Z_SEQ")

Upper(a) == IF a \in DOMAIN UpperMap THEN UpperMap[a] ELSE a

\* strings.ToLower on one atom
Lower(a) ==
  IF \E w \in DOMAIN UpperMap : UpperMap[w] = a
  THEN CHOOSE w \in DOMAIN UpperMap : UpperMap[w] = a
  ELSE a

ToUpper(s) == [k \in 1..Len(s) |-> Upper(s[k])]
ToLower(s) == [k \in 1..Len(s) |-> Lower(s[k])]

\* ------------------------------------------------- Go strings on atoms

Min(S) == CHOOSE x \in S : \A y \in S : x <= y
Max(S) == CHOOSE x \in S : \A y \in S : x >= y

\* s[i:] of Go, with i a 1-based atom index
From(s, i) == SubSeq(s, i, Len(s))

RECURSIVE Flat(_)
\* the Go string an atom sequence stands for
Flat(s) == IF s = <<>> THEN "" ELSE Head(s) \o Flat(Tail(s))

\* strings.TrimSpace
TrimSpace(s) ==
  LET K == {k \in 1..Len(s) : s[k] \notin WS}
  IN  IF K = {} THEN <<>> ELSE SubSeq(s, Min(K), Max(K))

\* strings.Trim(s, cutset)
Trim(s, cutset) ==
  LET K == {k \in 1..Len(s) : s[k] \notin cutset}
  IN  IF K = {} THEN <<>> ELSE SubSeq(s, Min(K), Max(K))

\* strings.HasPrefix / strings.HasSuffix with an atom-sequence pattern
HasPrefix(s, p) == Len(s) >= Len(p) /\ SubSeq(s, 1, Len(p)) = p
HasSuffix(s, p) == Len(s) >= Len(p) /\ SubSeq(s, Len(s) - Len(p) + 1, Len(s)) = p

\* strings.TrimSuffix
TrimSuffix(s, p) == IF HasSuffix(s, p) THEN SubSeq(s, 1, Len(s) - Len(p)) ELSE s

\* strings.TrimPrefix
TrimPrefix(s, p) == IF HasPrefix(s, p) THEN From(s, Len(p) + 1) ELSE s

\* strings.Index: first position of p in s, 0 when absent (Go: -1)
Index(s, p) ==
  LET K == {k \in 1..(Len(s) - Len(p) + 1) : SubSeq(s, k, k + Len(p) - 1) = p}
  IN  IF K = {} THEN 0 ELSE Min(K)

\* strings.Contains
Contains(s, p) == Index(s, p) # 0

RECURSIVE Split(_, _)
\* strings.Split(s, sep) for a one-character separator
Split(s, sep) ==
  LET k == Index(s, <<sep>>)
  IN  IF k = 0 THEN <<s>>
      ELSE <<SubSeq(s, 1, k - 1)>> \o Split(From(s, k + 1), sep)

RECURSIVE Join(_, _)
\* strings.Join(lines, sep)
Join(ls, sep) ==
  IF ls = <<>> THEN <<>>
  ELSE IF Len(ls) = 1 THEN ls[1]
  ELSE ls[1] \o <<sep>> \o Join(Tail(ls), sep)

RECURSIVE ReplaceDoubleSpace(_)
\* strings.ReplaceAll(s, "  ", " "): one left-to-right pass, non-overlapping
ReplaceDoubleSpace(s) ==
  IF Len(s) < 2 THEN s
  ELSE IF s[1] = " " /\ s[2] = " "
       THEN <<" ">> \o ReplaceDoubleSpace(From(s, 3))
       ELSE <<s[1]>> \o ReplaceDoubleSpace(Tail(s))

\* ---------------------------------------------------- regular expressions
\* A compiled pattern is [ci, n, p]: whether it is compiled with (?i), the
\* number of its capture groups, and its items in order.  A pattern with (?i)
\* is written with its literals in upper case and matched against the
\* upper-cased text: ToUpper changes neither the number of atoms nor the class
\* of an atom, so a position in the upper-cased text is the same position in
\* the text.  A literal word of a pattern is one atom, so it matches whole
\* words only: \b at the border of a literal word holds by construction, and
\* the modelled inputs hold no keyword as a part of a longer word.

\* a run of literal atoms
Lit(as) == [t |-> "lit", as |-> as]

\* one literal word or character
Kw(w) == [t |-> "lit", as |-> <<w>>]

\* c+ c* c+? ... : a class repeated min times or more, greedy or lazy
Rep(c, min, greedy) == [t |-> "rep", c |-> c, min |-> min, greedy |-> greedy]

\* exactly one character of a class
One(c) == [t |-> "one", c |-> c]

\* (a1|a2|...) as group number n, 0 for a group that does not capture
Grp(n, alts) == [t |-> "grp", n |-> n, alts |-> alts]

\* (p) as group number n
Cap(n, p) == [t |-> "grp", n |-> n, alts |-> <<p>>]

\* (?:p)?
Opt(p) == [t |-> "grp", n |-> 0, alts |-> <<p, <<>>>>]

\* ^ and $ (no multi-line flag: the ends of the text)
Bol == [t |-> "bol"]
Eol == [t |-> "eol"]

\* the end of group n that began at position start
GrpEnd(n, start) == [t |-> "end", n |-> n, start |-> start]

\* \s* and \s+
Ws0 == [t |-> "rep", c |-> "\\s", min |-> 0, greedy |-> TRUE]
Ws1 == [t |-> "rep", c |-> "\\s", min |-> 1, greedy |-> TRUE]

\* [\w"]+
Ident == [t |-> "rep", c |-> "[\\w\"]", min |-> 1, greedy |-> TRUE]

\* [\w"]+(?:\.[\w"]+)?
QualIdent == <<Ident, Opt(<<Kw("."), Ident>>)>>

\* (?:IF\s+NOT\s+EXISTS\s+)?
IfNotExists == Opt(<<Kw("IF"), Ws1, Kw("NOT"), Ws1, Kw("EXISTS"), Ws1>>)

\* the decimal numbers of the modelled inputs that fit a 64-bit integer
DigitVal ==
  ("0" :> 0) @@ ("1" :> 1) @@ ("2" :> 2) @@ ("5" :> 5) @@ ("10" :> 10) @@
  ("100" :> 100)

\* a run of digits too long for a 64-bit integer
TooBig == {"99999999999999999999"}

\* \d+ as one atom
IsDigits(a) == a \in DOMAIN DigitVal \cup TooBig

\* whether an atom is of a character class
InClass(c, a) ==
  CASE c = "\\s" -> a \in WS
    [] c = "\\S" -> a \notin WS
    [] c = "\\w" -> IsWord(a)
    [] c = "\\d" -> IsDigits(a)
    [] c = "[\\w\"]" -> IsIdentAtom(a)
    [] c = "." -> a # "\n"
    [] c = "[^)]" -> a # ")"
    [] c = "[^']" -> a # "'"

\* the position just after the longest run of the class c from position i
RunEnd(u, i, c) ==
  Min({k \in i..Len(u) : ~InClass(c, u[k])} \cup {Len(u) + 1})

NoMatch == [ok |-> FALSE]

RECURSIVE MatchFrom(_, _, _, _)
RECURSIVE FirstAlt(_, _, _, _, _, _)

\* a repeated class followed by the items rest: the run may end anywhere from
\* lo to run; a greedy one takes the longest run the rest matches after, a
\* lazy one the shortest
RepMatch(h, rest, u, g, lo, run) ==
  IF lo > run THEN NoMatch
  ELSE IF lo = run THEN MatchFrom(rest, u, run, g)
  ELSE LET N == {j \in lo..run : MatchFrom(rest, u, j, g).ok}
       IN  IF N = {} THEN NoMatch
           ELSE MatchFrom(rest, u, IF h.greedy THEN Max(N) ELSE Min(N), g)

\* the match of the items p at position i of the text u that a backtracking
\* matcher finds first (Go's leftmost-first match), with the groups g set so
\* far: [ok, end, g], where g[n] is <<first position, position after>> of
\* group n, <<0, 0>> for a group that took no part
MatchFrom(p, u, i, g) ==
  IF p = <<>> THEN [ok |-> TRUE, end |-> i, g |-> g]
  ELSE CASE p[1].t = "lit" ->
              IF i + Len(p[1].as) - 1 <= Len(u)
                   /\ SubSeq(u, i, i + Len(p[1].as) - 1) = p[1].as
              THEN MatchFrom(Tail(p), u, i + Len(p[1].as), g)
              ELSE NoMatch
         [] p[1].t = "one" ->
              IF i <= Len(u) /\ InClass(p[1].c, u[i])
              THEN MatchFrom(Tail(p), u, i + 1, g)
              ELSE NoMatch
         [] p[1].t = "rep" ->
              RepMatch(p[1], Tail(p), u, g, i + p[1].min, RunEnd(u, i, p[1].c))
         [] p[1].t = "grp" -> FirstAlt(p[1], 1, Tail(p), u, i, g)
         [] p[1].t = "end" ->
              MatchFrom(Tail(p), u, i,
                        IF p[1].n = 0 THEN g
                        ELSE [g EXCEPT ![p[1].n] = <<p[1].start, i>>])
         [] p[1].t = "bol" ->
              IF i = 1 THEN MatchFrom(Tail(p), u, i, g) ELSE NoMatch
         [] p[1].t = "eol" ->
              IF i = Len(u) + 1 THEN MatchFrom(Tail(p), u, i, g) ELSE NoMatch

\* the alternatives of the group h from number a on, in order
FirstAlt(h, a, rest, u, i, g) ==
  IF a > Len(h.alts) THEN NoMatch
  ELSE LET r == MatchFrom(h.alts[a] \o <<GrpEnd(h.n, i)>> \o rest, u, i, g)
       IN  IF r.ok THEN r ELSE FirstAlt(h, a + 1, rest, u, i, g)

\* no group has taken part
NoGroups(re) == [n \in 1..re.n |-> <<0, 0>>]

\* a pattern that begins with a literal can only match where that literal is
MayStart(p, u, k) ==
  (p # <<>> /\ p[1].t = "lit") => (k <= Len(u) /\ u[k] = p[1].as[1])

\* the match at the least of the positions K where the pattern matches
MatchAtFirst(re, u, K) ==
  IF K = {} THEN NoMatch
  ELSE [start |-> Min(K)] @@ MatchFrom(re.p, u, Min(K), NoGroups(re))

\* the leftmost match of the pattern in the text u
FindIn(re, u) ==
  MatchAtFirst(re, u, {k \in 1..(Len(u) + 1) :
                         MayStart(re.p, u, k)
                           /\ MatchFrom(re.p, u, k, NoGroups(re)).ok})

\* re.FindStringSubmatchIndex(s): [ok |-> FALSE] for nil, else
\* [ok, start, end, g] with the positions of the match and of its groups
FindStringSubmatchIndex(re, s) == FindIn(re, IF re.ci THEN ToUpper(s) ELSE s)

\* re.MatchString(s)
MatchString(re, s) == FindStringSubmatchIndex(re, s).ok

\* m[n] of re.FindStringSubmatch(s): the text of group n, empty for a group
\* that took no part (and for no match, where the code uses no m[n])
Sub(s, m, n) ==
  IF m.ok /\ m.g[n] # <<0, 0>> THEN SubSeq(s, m.g[n][1], m.g[n][2] - 1)
  ELSE <<>>

\* m[0]: the text of the whole match
Whole(s, m) == SubSeq(s, m.start, m.end - 1)

\* ------------------------------------------------------ compiled patterns

\* --\s*Dumped from database version (\S+)
rePgVersion ==
  [ci |-> FALSE, n |-> 1, p |->
    <<Lit(<<"-", "-">>), Ws0,
      Lit(<<"Dumped", " ", "from", " ", "database", " ", "version", " ">>),
      Cap(1, <<Rep("\\S", 1, TRUE)>>)>>]

\* (?i)SELECT\s+pg_catalog\.set_config\(\s*'search_path'\s*,\s*'([^']*)'\s*
\*     |SET\s+search_path\s*=\s*(.+?)\s*;
reSetSearchPath ==
  [ci |-> TRUE, n |-> 2, p |->
    <<Grp(0, <<
        <<Kw("SELECT"), Ws1, Lit(<<"PG_CATALOG", ".", "SET_CONFIG", "(">>), Ws0,
          Lit(<<"'", "SEARCH_PATH", "'">>), Ws0, Kw(","), Ws0, Kw("'"),
          Cap(1, <<Rep("[^']", 0, TRUE)>>), Kw("'"), Ws0>>,
        <<Kw("SET"), Ws1, Kw("SEARCH_PATH"), Ws0, Kw("="), Ws0,
          Cap(2, <<Rep(".", 1, FALSE)>>), Ws0, Kw(";")>> >>)>>]

\* (?i)CREATE\s+EXTENSION\s+(?:IF\s+NOT\s+EXISTS\s+)?(\S+)(?:\s+(?:WITH\s+)?SCHEMA\s+(\S+))?
reCreateExtension ==
  [ci |-> TRUE, n |-> 2, p |->
    <<Kw("CREATE"), Ws1, Kw("EXTENSION"), Ws1, IfNotExists,
      Cap(1, <<Rep("\\S", 1, TRUE)>>),
      Opt(<<Ws1, Opt(<<Kw("WITH"), Ws1>>), Kw("SCHEMA"), Ws1,
            Cap(2, <<Rep("\\S", 1, TRUE)>>)>>)>>]

\* (?i)CREATE\s+(UNLOGGED\s+)?TABLE\s+(?:IF\s+NOT\s+EXISTS\s+)?([\w"]+(?:\.[\w"]+)?)\s*\(
reCreateTable ==
  [ci |-> TRUE, n |-> 2, p |->
    <<Kw("CREATE"), Ws1, Opt(<<Cap(1, <<Kw("UNLOGGED"), Ws1>>)>>), Kw("TABLE"),
      Ws1, IfNotExists, Cap(2, QualIdent), Ws0, Kw("(")>>]

\* (?i)^\s*CREATE\s  (compiled inside processStatement)
reCreateAtStart ==
  [ci |-> TRUE, n |-> 0, p |-> <<Bol, Ws0, Kw("CREATE"), One("\\s")>>]

\* (?i)CREATE\s+SEQUENCE\s+(?:IF\s+NOT\s+EXISTS\s+)?([\w"]+(?:\.[\w"]+)?)
reCreateSequence ==
  [ci |-> TRUE, n |-> 1, p |->
    <<Kw("CREATE"), Ws1, Kw("SEQUENCE"), Ws1, IfNotExists, Cap(1, QualIdent)>>]

\* ALTER\s+TABLE\s+(?:ONLY\s+)?([\w"]+(?:\.[\w"]+)?)\s+ : the common beginning
\* of the ALTER TABLE patterns
AlterTable ==
  <<Kw("ALTER"), Ws1, Kw("TABLE"), Ws1, Opt(<<Kw("ONLY"), Ws1>>),
    Cap(1, QualIdent), Ws1>>

\* (PRIMARY\s+KEY|UNIQUE|FOREIGN\s+KEY|EXCLUDE|CHECK) as group n
ConstraintKind(n) ==
  Grp(n, << <<Kw("PRIMARY"), Ws1, Kw("KEY")>>, <<Kw("UNIQUE")>>,
            <<Kw("FOREIGN"), Ws1, Kw("KEY")>>, <<Kw("EXCLUDE")>>,
            <<Kw("CHECK")>> >>)

\* (?i)ALTER\s+TABLE\s+(?:ONLY\s+)?([\w"]+(?:\.[\w"]+)?)\s+ADD\s+CONSTRAINT\s+
\*     ([\w"]+)\s+(PRIMARY\s+KEY|UNIQUE|FOREIGN\s+KEY|EXCLUDE|CHECK)
reAlterAddConstraint ==
  [ci |-> TRUE, n |-> 3, p |->
    AlterTable \o <<Kw("ADD"), Ws1, Kw("CONSTRAINT"), Ws1, Cap(2, <<Ident>>),
                    Ws1, ConstraintKind(3)>>]

\* (?i)CREATE\s+(UNIQUE\s+)?INDEX\s+(?:IF\s+NOT\s+EXISTS\s+)?([\w"]+)\s+ON\s+
\*     (?:ONLY\s+)?([\w"]+(?:\.[\w"]+)?)
reCreateIndex ==
  [ci |-> TRUE, n |-> 3, p |->
    <<Kw("CREATE"), Ws1, Opt(<<Cap(1, <<Kw("UNIQUE"), Ws1>>)>>), Kw("INDEX"), Ws1,
      IfNotExists, Cap(2, <<Ident>>), Ws1, Kw("ON"), Ws1,
      Opt(<<Kw("ONLY"), Ws1>>), Cap(3, QualIdent)>>]

\* (?i)ALTER\s+TABLE\s+(?:ONLY\s+)?([\w"]+(?:\.[\w"]+)?)\s+ALTER\s+COLUMN\s+
\*     ([\w"]+)\s+SET\s+DEFAULT\s+(.+?)\s*;
reAlterSetDefault ==
  [ci |-> TRUE, n |-> 3, p |->
    AlterTable \o <<Kw("ALTER"), Ws1, Kw("COLUMN"), Ws1, Cap(2, <<Ident>>), Ws1,
                    Kw("SET"), Ws1, Kw("DEFAULT"), Ws1,
                    Cap(3, <<Rep(".", 1, FALSE)>>), Ws0, Kw(";")>>]

\* (ALWAYS|BY\s+DEFAULT) as group n
IdentityKind(n) ==
  Grp(n, << <<Kw("ALWAYS")>>, <<Kw("BY"), Ws1, Kw("DEFAULT")>> >>)

\* (?i)ALTER\s+TABLE\s+(?:ONLY\s+)?([\w"]+(?:\.[\w"]+)?)\s+ALTER\s+COLUMN\s+
\*     ([\w"]+)\s+ADD\s+GENERATED\s+(ALWAYS|BY\s+DEFAULT)\s+AS\s+IDENTITY
reAlterAddIdentity ==
  [ci |-> TRUE, n |-> 3, p |->
    AlterTable \o <<Kw("ALTER"), Ws1, Kw("COLUMN"), Ws1, Cap(2, <<Ident>>), Ws1,
                    Kw("ADD"), Ws1, Kw("GENERATED"), Ws1, IdentityKind(3), Ws1,
                    Kw("AS"), Ws1, Kw("IDENTITY")>>]

\* (?i)ALTER\s+SEQUENCE\s+([\w"]+(?:\.[\w"]+)?)\s+OWNED\s+BY\s+
\*     ([\w"]+(?:\.[\w"]+)?)\.([\w"]+)
reAlterSeqOwned ==
  [ci |-> TRUE, n |-> 3, p |->
    <<Kw("ALTER"), Ws1, Kw("SEQUENCE"), Ws1, Cap(1, QualIdent), Ws1, Kw("OWNED"),
      Ws1, Kw("BY"), Ws1, Cap(2, QualIdent), Kw("."), Cap(3, <<Ident>>)>>]

\* (?i)CREATE\s+TYPE\s+([\w"]+(?:\.[\w"]+)?)\s+AS\s+ENUM\s*\(
reCreateTypeEnum ==
  [ci |-> TRUE, n |-> 1, p |->
    <<Kw("CREATE"), Ws1, Kw("TYPE"), Ws1, Cap(1, QualIdent), Ws1, Kw("AS"), Ws1,
      Kw("ENUM"), Ws0, Kw("(")>>]

\* (?i)CREATE\s+(?:OR\s+REPLACE\s+)?RULE\s+([\w"]+)\s+AS\s+ON\s+(\w+)\s+TO\s+
\*     ([\w"]+(?:\.[\w"]+)?)\s+DO\s+(INSTEAD\s+)?
reCreateRule ==
  [ci |-> TRUE, n |-> 4, p |->
    <<Kw("CREATE"), Ws1, Opt(<<Kw("OR"), Ws1, Kw("REPLACE"), Ws1>>), Kw("RULE"),
      Ws1, Cap(1, <<Ident>>), Ws1, Kw("AS"), Ws1, Kw("ON"), Ws1,
      Cap(2, <<Rep("\\w", 1, TRUE)>>), Ws1, Kw("TO"), Ws1, Cap(3, QualIdent), Ws1,
      Kw("DO"), Ws1, Opt(<<Cap(4, <<Kw("INSTEAD"), Ws1>>)>>)>>]

\* (?i)REFERENCES\s+([\w"]+(?:\.[\w"]+)?)\s*\(([^)]+)\)
reFkReferences ==
  [ci |-> TRUE, n |-> 2, p |->
    <<Kw("REFERENCES"), Ws1, Cap(1, QualIdent), Ws0, Kw("("),
      Cap(2, <<Rep("[^)]", 1, TRUE)>>), Kw(")")>>]

\* (CASCADE|SET\s+NULL|SET\s+DEFAULT|RESTRICT|NO\s+ACTION) as group 1
FkAction ==
  Grp(1, << <<Kw("CASCADE")>>, <<Kw("SET"), Ws1, Kw("NULL")>>,
            <<Kw("SET"), Ws1, Kw("DEFAULT")>>, <<Kw("RESTRICT")>>,
            <<Kw("NO"), Ws1, Kw("ACTION")>> >>)

\* (?i)ON\s+DELETE\s+(CASCADE|SET\s+NULL|SET\s+DEFAULT|RESTRICT|NO\s+ACTION)
reFkOnDelete ==
  [ci |-> TRUE, n |-> 1, p |-> <<Kw("ON"), Ws1, Kw("DELETE"), Ws1, FkAction>>]

\* (?i)ON\s+UPDATE\s+(CASCADE|SET\s+NULL|SET\s+DEFAULT|RESTRICT|NO\s+ACTION)
reFkOnUpdate ==
  [ci |-> TRUE, n |-> 1, p |-> <<Kw("ON"), Ws1, Kw("UPDATE"), Ws1, FkAction>>]

\* ^\s*([\w"]+)\s+(.+)$
reColumnLine ==
  [ci |-> FALSE, n |-> 2, p |->
    <<Bol, Ws0, Cap(1, <<Ident>>), Ws1, Cap(2, <<Rep(".", 1, TRUE)>>), Eol>>]

\* (?i)\bNOT\s+NULL\b
reNotNull == [ci |-> TRUE, n |-> 0, p |-> <<Kw("NOT"), Ws1, Kw("NULL")>>]

\* (?i)\bDEFAULT\s+(.+?)(?:\s+NOT\s+NULL|\s+NULL|\s*,?\s*$)
reDefault ==
  [ci |-> TRUE, n |-> 1, p |->
    <<Kw("DEFAULT"), Ws1, Cap(1, <<Rep(".", 1, FALSE)>>),
      Grp(0, << <<Ws1, Kw("NOT"), Ws1, Kw("NULL")>>, <<Ws1, Kw("NULL")>>,
                <<Ws0, Opt(<<Kw(",")>>), Ws0, Eol>> >>)>>]

\* (?i)\bGENERATED\s+ALWAYS\s+AS\s*\((.+?)\)\s+STORED
reGenerated ==
  [ci |-> TRUE, n |-> 1, p |->
    <<Kw("GENERATED"), Ws1, Kw("ALWAYS"), Ws1, Kw("AS"), Ws0, Kw("("),
      Cap(1, <<Rep(".", 1, FALSE)>>), Kw(")"), Ws1, Kw("STORED")>>]

\* (?i)\bGENERATED\s+(ALWAYS|BY\s+DEFAULT)\s+AS\s+IDENTITY
reIdentityInline ==
  [ci |-> TRUE, n |-> 1, p |->
    <<Kw("GENERATED"), Ws1, IdentityKind(1), Ws1, Kw("AS"), Ws1, Kw("IDENTITY")>>]

\* (?i)^\s*(PRIMARY\s+KEY|UNIQUE|FOREIGN\s+KEY|EXCLUDE|CHECK|CONSTRAINT)\b
reTableConstraintKw ==
  [ci |-> TRUE, n |-> 1, p |->
    <<Bol, Ws0,
      Grp(1, << <<Kw("PRIMARY"), Ws1, Kw("KEY")>>, <<Kw("UNIQUE")>>,
                <<Kw("FOREIGN"), Ws1, Kw("KEY")>>, <<Kw("EXCLUDE")>>,
                <<Kw("CHECK")>>, <<Kw("CONSTRAINT")>> >>)>>]

\* (\$[\w]*\$)
reDollarQuote ==
  [ci |-> FALSE, n |-> 1, p |->
    <<Cap(1, <<Kw("$"), Rep("\\w", 0, TRUE), Kw("$")>>)>>]

\* (?i)\bAS\s+(smallint|integer|bigint)\b
reSeqAs ==
  [ci |-> TRUE, n |-> 1, p |->
    <<Kw("AS"), Ws1,
      Grp(1, << <<Kw("SMALLINT")>>, <<Kw("INTEGER")>>, <<Kw("BIGINT")>> >>)>>]

\* (\d+) as group 1
Digits == Cap(1, <<Rep("\\d", 1, TRUE)>>)

\* (?i)\bSTART\s+WITH\s+(\d+)
reSeqStart ==
  [ci |-> TRUE, n |-> 1, p |-> <<Kw("START"), Ws1, Kw("WITH"), Ws1, Digits>>]

\* (?i)\bINCREMENT\s+BY\s+(\d+)
reSeqIncrement ==
  [ci |-> TRUE, n |-> 1, p |-> <<Kw("INCREMENT"), Ws1, Kw("BY"), Ws1, Digits>>]

\* (?i)\bMINVALUE\s+(\d+)
reSeqMinValue == [ci |-> TRUE, n |-> 1, p |-> <<Kw("MINVALUE"), Ws1, Digits>>]

\* (?i)\bMAXVALUE\s+(\d+)
reSeqMaxValue == [ci |-> TRUE, n |-> 1, p |-> <<Kw("MAXVALUE"), Ws1, Digits>>]

\* (?i)\bCYCLE\b
reSeqCycle == [ci |-> TRUE, n |-> 0, p |-> <<Kw("CYCLE")>>]

\* (?i)\bNO\s+CYCLE\b
reSeqNoCycle == [ci |-> TRUE, n |-> 0, p |-> <<Kw("NO"), Ws1, Kw("CYCLE")>>]

\* (?i)\)\s*INHERITS\s*\(([^)]+)\)
reInherits ==
  [ci |-> TRUE, n |-> 1, p |->
    <<Kw(")"), Ws0, Kw("INHERITS"), Ws0, Kw("("),
      Cap(1, <<Rep("[^)]", 1, TRUE)>>), Kw(")")>>]

\* (?i)\)\s*(?:INHERITS\s*\([^)]*\)\s*)?PARTITION\s+BY\s+(.+?)(?:\s*;|$)
rePartitionBy ==
  [ci |-> TRUE, n |-> 1, p |->
    <<Kw(")"), Ws0,
      Opt(<<Kw("INHERITS"), Ws0, Kw("("), Rep("[^)]", 0, TRUE), Kw(")"), Ws0>>),
      Kw("PARTITION"), Ws1, Kw("BY"), Ws1, Cap(1, <<Rep(".", 1, FALSE)>>),
      Grp(0, << <<Ws0, Kw(";")>>, <<Eol>> >>)>>]

\* (?i)\bUSING\s+(\w+)
reIndexMethod ==
  [ci |-> TRUE, n |-> 1, p |->
    <<Kw("USING"), Ws1, Cap(1, <<Rep("\\w", 1, TRUE)>>)>>]

\* (?i)\bDEFERRABLE\b
reDeferrable == [ci |-> TRUE, n |-> 0, p |-> <<Kw("DEFERRABLE")>>]

\* (?i)\bNOT\s+DEFERRABLE\b
reNotDeferrable ==
  [ci |-> TRUE, n |-> 0, p |-> <<Kw("NOT"), Ws1, Kw("DEFERRABLE")>>]

\* (?i)\bINITIALLY\s+DEFERRED\b
reInitiallyDeferred ==
  [ci |-> TRUE, n |-> 0, p |-> <<Kw("INITIALLY"), Ws1, Kw("DEFERRED")>>]

\* (?i)CONSTRAINT\s+([\w"]+)\s+
reConstraintName ==
  [ci |-> TRUE, n |-> 1, p |->
    <<Kw("CONSTRAINT"), Ws1, Cap(1, <<Ident>>), Ws1>>]

\* ------------------------------------------------------ helper functions

\* the one call of unquote that panics: name[1 : len(name)-1] on the
\* one-character string `"` is name[1:0], a slice with low > high
UnquotePanics(name) == name = <<"\"">>

\* unquote strips double-quote wrappers from identifiers.
unquote(name) ==
  IF HasPrefix(name, <<"\"">>) /\ HasSuffix(name, <<"\"">>) /\ Len(name) >= 2
  THEN SubSeq(name, 2, Len(name) - 1)
  ELSE name

\* splitQualified splits 'schema.name' or just 'name' into (schema, name).
splitQualified(name, defaultSchema) ==
  LET idx == Index(name, <<".">>)
  IN  IF idx # 0
      THEN [schema |-> Flat(unquote(SubSeq(name, 1, idx - 1))),
            name   |-> Flat(unquote(From(name, idx + 1))),
            panic  |-> UnquotePanics(SubSeq(name, 1, idx - 1))
                         \/ UnquotePanics(From(name, idx + 1))]
      ELSE [schema |-> defaultSchema,
            name   |-> Flat(unquote(name)),
            panic  |-> UnquotePanics(name)]

\* the non-empty ones of the pieces, each trimmed
TrimmedPieces(ps) ==
  SelectSeq([k \in 1..Len(ps) |-> TrimSpace(ps[k])], LAMBDA c : c # <<>>)

\* the loop of parseColumnList: the non-empty trimmed pieces of the list
ListPieces(text) ==
  TrimmedPieces(Split(TrimSuffix(TrimPrefix(TrimSpace(text), <<"(">>), <<")">>), ","))

\* each piece unquoted
UnquoteAll(cs) == [k \in 1..Len(cs) |-> Flat(unquote(cs[k]))]

\* parseColumnList parses '(col1, col2)' or 'col1, col2' into column names.
parseColumnList(text) == UnquoteAll(ListPieces(text))

\* whether unquote panics on one of the pieces
AnyUnquotePanics(cs) == \E k \in 1..Len(cs) : UnquotePanics(cs[k])

\* whether parseColumnList panics
parseColumnListPanics(text) == AnyUnquotePanics(ListPieces(text))

RECURSIVE ParenScan(_, _, _, _)
\* the loop of extractParenContent from position i with the given depth and
\* start (0 stands for Go's -1); the result is <<start, end>> of the content,
\* or <<>> when the loop runs off the text.  A character that is no
\* parenthesis changes nothing, so the loop is stepped from one parenthesis
\* to the next.
ParenScan(text, i, depth, start) ==
  LET P == {k \in i..Len(text) : text[k] \in {"(", ")"}}
      j == Min(P)
  IN  IF P = {} THEN <<>>
      ELSE IF text[j] = "("
           THEN ParenScan(text, j + 1, depth + 1, IF depth = 0 THEN j + 1 ELSE start)
           ELSE IF depth - 1 = 0 /\ start > 0
                THEN <<start, j - 1>>
                ELSE ParenScan(text, j + 1, depth - 1, start)

\* text[start:i] for the positions the loop returns, "" when it returns none
ParenContent(text, r) == IF r = <<>> THEN <<>> ELSE SubSeq(text, r[1], r[2])

\* the text from the first "(" to the last ")", whatever lies between
extractToLastParen(text) ==
  IF {k \in DOMAIN text : text[k] = "("} = {} \/ {k \in DOMAIN text : text[k] = ")"} = {}
  THEN <<>>
  ELSE SubSeq(text, Min({k \in DOMAIN text : text[k] = "("}) + 1,
              Max({k \in DOMAIN text : text[k] = ")"}) - 1)

\* extractParenContent extracts content inside first balanced parentheses.
extractParenContent(text) == ParenContent(text, ParenScan(text, 1, 0, 0))

RECURSIVE BodyScan(_, _, _, _, _)
\* the loop of splitBodyParts from position i: parts so far, current part,
\* depth.  A character that is no parenthesis and no comma is only appended
\* to the current part, so the loop is stepped from one of these characters
\* to the next.
BodyScan(body, i, depth, current, parts) ==
  LET P == {k \in i..Len(body) : body[k] \in {"(", ")", ","}}
      j == Min(P)
  IN  IF P = {}
      THEN IF Len(current \o SubSeq(body, i, Len(body))) > 0
           THEN Append(parts, current \o SubSeq(body, i, Len(body)))
           ELSE parts
      ELSE IF body[j] = "("
           THEN BodyScan(body, j + 1, depth + 1, current \o SubSeq(body, i, j), parts)
      ELSE IF body[j] = ")"
           THEN BodyScan(body, j + 1, depth - 1, current \o SubSeq(body, i, j), parts)
      ELSE IF depth = 0
           THEN BodyScan(body, j + 1, depth, <<>>,
                         Append(parts, current \o SubSeq(body, i, j - 1)))
           ELSE BodyScan(body, j + 1, depth, current \o SubSeq(body, i, j), parts)

\* splitting at every comma, whatever the depth
splitAtEveryComma(body) == Split(body, ",")

\* splitBodyParts splits CREATE TABLE body on top-level commas.
splitBodyParts(body) == BodyScan(body, 1, 0, <<>>, <<>>)

RECURSIVE DropChars(_, _)
\* text[n:] for a character count n (cut at the next atom border)
DropChars(s, n) ==
  IF n <= 0 \/ s = <<>> THEN s ELSE DropChars(Tail(s), n - Len(Head(s)))

RECURSIVE CharLen(_)
\* len(s) in characters
CharLen(s) == IF s = <<>> THEN 0 ELSE Len(Head(s)) + CharLen(Tail(s))

\* ---------------------------------------------------------------- columns
\* What one part of a table body gives: [cols, cons, panic], the ColumnDefs
\* appended to the table, the ConstraintDefs appended to the schema, and
\* whether the code panics on it.

NoPart == [cols |-> <<>>, cons |-> <<>>, panic |-> FALSE]
PanicPart == [cols |-> <<>>, cons |-> <<>>, panic |-> TRUE]

ConstraintKeywordNames ==
  {"PRIMARY", "UNIQUE", "FOREIGN", "EXCLUDE", "CHECK", "CONSTRAINT"}

\* the starts of the matches among the given ones
StartOf(m) == IF m.ok THEN {m.start} ELSE {}

\* typeEnd: len(rest), or the least start of a match of reNotNull, reDefault,
\* reGenerated, reIdentityInline before it
TypeEnd(rest, nn, dm, gm, im) ==
  Min({Len(rest) + 1} \cup StartOf(nn) \cup StartOf(dm) \cup StartOf(gm)
        \cup StartOf(im))

\* the ColumnDef parseColumn returns for a name and the rest of the line, with
\* the matches of the four column patterns in the rest
ColumnDefOf(name, rest, nn, dm, gm, im) ==
  [Name          |-> Flat(unquote(name)),
   DataType      |-> Flat(TrimSuffix(TrimSpace(
                       SubSeq(rest, 1, TypeEnd(rest, nn, dm, gm, im) - 1)), <<",">>)),
   NotNull       |-> nn.ok,
   DefaultExpr   |-> IF dm.ok
                     THEN Flat(TrimSuffix(TrimSpace(Sub(rest, dm, 1)), <<",">>))
                     ELSE "",
   Identity      |-> IF im.ok
                     THEN Flat(ToUpper(ReplaceDoubleSpace(Sub(rest, im, 1))))
                     ELSE "",
   GeneratedExpr |-> IF gm.ok THEN Flat(TrimSpace(Sub(rest, gm, 1))) ELSE ""]

\* parseColumn after the match m of reColumnLine on the line
ColumnOfMatch(line, m) ==
  IF ~m.ok THEN NoPart
  ELSE IF UnquotePanics(Sub(line, m, 1)) THEN PanicPart
  ELSE IF Flat(ToUpper(unquote(Sub(line, m, 1)))) \in ConstraintKeywordNames
  THEN NoPart
  ELSE [cols |-> <<ColumnDefOf(Sub(line, m, 1), Sub(line, m, 2),
                     FindStringSubmatchIndex(reNotNull, Sub(line, m, 2)),
                     FindStringSubmatchIndex(reDefault, Sub(line, m, 2)),
                     FindStringSubmatchIndex(reGenerated, Sub(line, m, 2)),
                     FindStringSubmatchIndex(reIdentityInline, Sub(line, m, 2)))>>,
        cons |-> <<>>, panic |-> FALSE]

\* parseColumn on the trimmed line
ColumnOfLine(line) ==
  IF line = <<>> \/ HasPrefix(line, <<"-", "-">>) THEN NoPart
  ELSE IF MatchString(reTableConstraintKw, line) THEN NoPart
  ELSE ColumnOfMatch(line, FindStringSubmatchIndex(reColumnLine, line))

\* parseColumn parses a single column definition line inside CREATE TABLE.
\* cols is empty when the code returns nil
parseColumn(line) == ColumnOfLine(TrimSuffix(TrimSpace(line), <<",">>))

\* ------------------------------------------------------------ constraints

\* a ConstraintDef with Go's zero values in the fields not given
NewConstraint(name, type, tschema, tname) ==
  [Name |-> name, ConstraintType |-> type,
   TableSchema |-> tschema, TableName |-> tname,
   Columns |-> <<>>, RefSchema |-> "", RefTable |-> "", RefColumns |-> <<>>,
   OnDelete |-> "", OnUpdate |-> "",
   Deferrable |-> FALSE, InitiallyDeferred |-> FALSE]

\* reDeferrable.MatchString(s) && !reNotDeferrable.MatchString(s)
IsDeferrable(s) == MatchString(reDeferrable, s) /\ ~MatchString(reNotDeferrable, s)

\* the referenced table and columns, for a table name split by splitQualified
FkTarget(q, cols) ==
  [RefSchema |-> q.schema, RefTable |-> q.name,
   RefColumns |-> parseColumnList(cols),
   panic |-> q.panic \/ parseColumnListPanics(cols)]

\* the fields set from the match ref of reFkReferences on the text
FkReferenceOf(text, ref, searchPath) ==
  IF ~ref.ok
  THEN [RefSchema |-> "", RefTable |-> "", RefColumns |-> <<>>, panic |-> FALSE]
  ELSE FkTarget(splitQualified(Sub(text, ref, 1), searchPath), Sub(text, ref, 2))

\* the FOREIGN KEY fields both constraint paths fill from the text after the
\* kind keyword: [RefSchema, RefTable, RefColumns, panic]
FkReference(text, searchPath) ==
  FkReferenceOf(text, FindStringSubmatchIndex(reFkReferences, text), searchPath)

\* the FOREIGN KEY branch of parseInlineConstraint
InlineForeignKey(con, rest, colContent, fk) ==
  [cols  |-> <<>>,
   cons  |-> <<[con EXCEPT
                  !.Columns    = parseColumnList(colContent),
                  !.RefSchema  = fk.RefSchema,
                  !.RefTable   = fk.RefTable,
                  !.RefColumns = fk.RefColumns,
                  !.OnDelete   = Flat(ToUpper(Sub(rest,
                                   FindStringSubmatchIndex(reFkOnDelete, rest), 1))),
                  !.OnUpdate   = Flat(ToUpper(Sub(rest,
                                   FindStringSubmatchIndex(reFkOnUpdate, rest), 1)))]>>,
   panic |-> parseColumnListPanics(colContent) \/ fk.panic]

\* the branches of parseInlineConstraint on the kind restUpper begins with
InlineConstraintKind(conName, rest, restUpper, colContent, tblSchema, tblName, searchPath) ==
  IF HasPrefix(restUpper, <<"PRIMARY", " ", "KEY">>)
  THEN [cols  |-> <<>>,
        cons  |-> <<[NewConstraint(conName, "PRIMARY KEY", tblSchema, tblName)
                       EXCEPT !.Columns = parseColumnList(colContent)]>>,
        panic |-> parseColumnListPanics(colContent)]
  ELSE IF HasPrefix(restUpper, <<"UNIQUE">>)
  THEN [cols  |-> <<>>,
        cons  |-> <<[NewConstraint(conName, "UNIQUE", tblSchema, tblName)
                       EXCEPT !.Columns = parseColumnList(colContent),
                              !.Deferrable = IsDeferrable(rest)]>>,
        panic |-> parseColumnListPanics(colContent)]
  ELSE IF HasPrefix(restUpper, <<"FOREIGN", " ", "KEY">>)
  THEN InlineForeignKey(NewConstraint(conName, "FOREIGN KEY", tblSchema, tblName),
                        rest, colContent, FkReference(rest, searchPath))
  ELSE NoPart

\* parseInlineConstraint with conName and rest set
InlineConstraintOf(conName, rest, tblSchema, tblName, searchPath) ==
  InlineConstraintKind(conName, rest, ToUpper(TrimSpace(rest)),
                       extractParenContent(rest), tblSchema, tblName, searchPath)

\* parseInlineConstraint after the match m of reConstraintName on the text;
\* rest = text[len(m[0]):]
InlineConstraintNamed(text, m, tblSchema, tblName, searchPath) ==
  IF ~m.ok
  THEN InlineConstraintOf("", text, tblSchema, tblName, searchPath)
  ELSE IF UnquotePanics(Sub(text, m, 1)) THEN PanicPart
  ELSE InlineConstraintOf(Flat(unquote(Sub(text, m, 1))),
                          DropChars(text, CharLen(Whole(text, m))),
                          tblSchema, tblName, searchPath)

\* parseInlineConstraint parses inline table-level constraints within CREATE
\* TABLE body.
parseInlineConstraint(text, tblSchema, tblName, searchPath) ==
  InlineConstraintNamed(text, FindStringSubmatchIndex(reConstraintName, text),
                        tblSchema, tblName, searchPath)

\* one iteration of the loop of parseTableBody, on the trimmed part; the
\* caller of parseTableBody passes the table's schema as searchPath
TableBodyPart(part, tblSchema, tblName) ==
  IF part = <<>> THEN NoPart
  ELSE IF MatchString(reTableConstraintKw, part)
  THEN parseInlineConstraint(part, tblSchema, tblName, tblSchema)
  ELSE parseColumn(part)

RECURSIVE TableBodyLoop(_, _, _, _, _, _)
\* the loop of parseTableBody after the part k gave r
TableBodyNext(parts, k, tblSchema, tblName, cols, cons, r) ==
  IF r.panic THEN [cols |-> cols, cons |-> cons, panic |-> TRUE]
  ELSE TableBodyLoop(parts, k + 1, tblSchema, tblName, cols \o r.cols,
                     cons \o r.cons)

\* the loop of parseTableBody over the parts from index k on, with the columns
\* and constraints appended so far; it stops at a panic
TableBodyLoop(parts, k, tblSchema, tblName, cols, cons) ==
  IF k > Len(parts) THEN [cols |-> cols, cons |-> cons, panic |-> FALSE]
  ELSE TableBodyNext(parts, k, tblSchema, tblName, cols, cons,
                     TableBodyPart(TrimSpace(parts[k]), tblSchema, tblName))

\* parseTableBody parses the body (between parens) of a CREATE TABLE statement:
\* the columns of the table and the constraints appended to the schema.
parseTableBody(body, tblSchema, tblName) ==
  TableBodyLoop(splitBodyParts(body), 1, tblSchema, tblName, <<>>, <<>>)

\* ------------------------------------------------------ schema model

\* Excluded schemas that should be filtered out
excludedSchemas == {"pg_catalog", "information_schema", "spock", "pg_toast"}

\* schema := &ParsedSchema{}
NewParsedSchema ==
  [Tables |-> <<>>, Constraints |-> <<>>, Indexes |-> <<>>, Sequences |-> <<>>,
   Extensions |-> <<>>, EnumTypes |-> <<>>, Rules |-> <<>>, PgVersion |-> ""]

RECURSIVE TableIndexFrom(_, _, _, _)
\* the loop of GetTable from index i: the index of the first table with the
\* given schema and name, 0 when the loop ends without one (Go: nil)
TableIndexFrom(tables, i, schema, name) ==
  IF i > Len(tables) THEN 0
  ELSE IF tables[i].SchemaName = schema /\ tables[i].TableName = name THEN i
  ELSE TableIndexFrom(tables, i + 1, schema, name)

\* GetTable returns the table definition for the given schema and name, or
\* nil if not found: here the index of the table, 0 for nil
GetTable(s, schema, name) == TableIndexFrom(s.Tables, 1, schema, name)

RECURSIVE ConstraintsLoop(_, _, _, _, _, _)
\* the loop of GetConstraintsForTable from index i with the result so far
ConstraintsLoop(cs, i, schema, name, constraintType, result) ==
  IF i > Len(cs) THEN result
  ELSE IF cs[i].TableSchema = schema /\ cs[i].TableName = name
          /\ (constraintType = "" \/ cs[i].ConstraintType = constraintType)
       THEN ConstraintsLoop(cs, i + 1, schema, name, constraintType,
                            Append(result, cs[i]))
       ELSE ConstraintsLoop(cs, i + 1, schema, name, constraintType, result)

\* GetConstraintsForTable with a bug: the kind is not compared
GetConstraintsOfAllKinds(s, schema, name, constraintType) ==
  ConstraintsLoop(s.Constraints, 1, schema, name, "", <<>>)

\* GetConstraintsForTable returns all constraints for the given table.
\* If constraintType is non-empty, filters to only that type.
GetConstraintsForTable(s, schema, name, constraintType) ==
  ConstraintsLoop(s.Constraints, 1, schema, name, constraintType, <<>>)

RECURSIVE IndexesLoop(_, _, _, _, _)
\* the loop of GetIndexesForTable from index i with the result so far
IndexesLoop(xs, i, schema, name, result) ==
  IF i > Len(xs) THEN result
  ELSE IF xs[i].TableSchema = schema /\ xs[i].TableName = name
       THEN IndexesLoop(xs, i + 1, schema, name, Append(result, xs[i]))
       ELSE IndexesLoop(xs, i + 1, schema, name, result)

\* GetIndexesForTable returns all indexes for the given table.
GetIndexesForTable(s, schema, name) ==
  IndexesLoop(s.Indexes, 1, schema, name, <<>>)

\* ------------------------------------------------------ processStatement
\* Every branch gives [schema, panic]: the model after the statement, or a
\* panic (the run ends there and the model is lost).

Keep(schema)  == [schema |-> schema, panic |-> FALSE]
Crash(schema) == [schema |-> schema, panic |-> TRUE]

\* CREATE EXTENSION, m the match of reCreateExtension
DoCreateExtension(m, stmt, schema) ==
  IF UnquotePanics(Sub(stmt, m, 1))
       \/ (Sub(stmt, m, 2) # <<>> /\ UnquotePanics(Sub(stmt, m, 2)))
  THEN Crash(schema)
  ELSE IF Flat(ToLower(TrimSuffix(unquote(Sub(stmt, m, 1)), <<";">>)))
            \notin excludedSchemas
  THEN Keep([schema EXCEPT !.Extensions = Append(@,
         [Name       |-> Flat(TrimSuffix(unquote(Sub(stmt, m, 1)), <<";">>)),
          SchemaName |-> IF Sub(stmt, m, 2) # <<>>
                         THEN Flat(TrimSuffix(unquote(Sub(stmt, m, 2)), <<";">>))
                         ELSE "public"])])
  ELSE Keep(schema)

\* each piece trimmed of spaces and then of quotes
TrimmedLabels(ps) == [k \in 1..Len(ps) |-> Trim(TrimSpace(ps[k]), {"'"})]

\* the non-empty ones of the labels
NonEmptyLabels(ls) == SelectSeq(ls, LAMBDA l : l # <<>>)

\* each label as a string
FlatAll(ls) == [k \in 1..Len(ls) |-> Flat(ls[k])]

\* the labels of CREATE TYPE ... AS ENUM
EnumLabels(content) ==
  FlatAll(NonEmptyLabels(TrimmedLabels(Split(content, ","))))

\* CREATE TYPE AS ENUM, m the match of reCreateTypeEnum
DoCreateTypeEnum(m, stmt, searchPath, schema) ==
  LET q == splitQualified(Sub(stmt, m, 1), searchPath)
  IN  IF q.panic THEN Crash(schema)
      ELSE IF q.schema \notin excludedSchemas
      THEN Keep([schema EXCEPT !.EnumTypes =
                   Append(@, [SchemaName |-> q.schema, TypeName |-> q.name,
                              Labels |-> EnumLabels(
                                 extractParenContent(From(stmt, m.start)))])])
      ELSE Keep(schema)

\* seq.DataType: the lower-cased group of reSeqAs, "bigint" without a match
SeqDataType(stmt, as) ==
  IF as.ok THEN Flat(ToLower(Sub(stmt, as, 1))) ELSE "bigint"

\* the value of a numeric option: <<v>> when the pattern matches and
\* strconv.ParseInt(.., 10, 64) gives no error, <<>> (Go: nil) otherwise
SeqNumber(stmt, m) ==
  IF m.ok /\ Flat(Sub(stmt, m, 1)) \in DOMAIN DigitVal
  THEN <<DigitVal[Flat(Sub(stmt, m, 1))]>>
  ELSE <<>>

\* CREATE SEQUENCE, m the match of reCreateSequence
DoCreateSequence(m, stmt, searchPath, schema) ==
  LET q == splitQualified(Sub(stmt, m, 1), searchPath)
  IN  IF q.panic THEN Crash(schema)
      ELSE IF q.schema \notin excludedSchemas
      THEN Keep([schema EXCEPT !.Sequences = Append(@,
             [SchemaName    |-> q.schema,
              SequenceName  |-> q.name,
              DataType      |-> SeqDataType(stmt, FindStringSubmatchIndex(reSeqAs, stmt)),
              StartValue    |-> SeqNumber(stmt, FindStringSubmatchIndex(reSeqStart, stmt)),
              Increment     |-> SeqNumber(stmt, FindStringSubmatchIndex(reSeqIncrement, stmt)),
              MinValue      |-> SeqNumber(stmt, FindStringSubmatchIndex(reSeqMinValue, stmt)),
              MaxValue      |-> SeqNumber(stmt, FindStringSubmatchIndex(reSeqMaxValue, stmt)),
              Cycle         |-> MatchString(reSeqCycle, stmt)
                                  /\ ~MatchString(reSeqNoCycle, stmt),
              OwnedByTable  |-> "",
              OwnedByColumn |-> ""])])
      ELSE Keep(schema)

\* each piece trimmed, as a string
TrimmedAll(ps) == [k \in 1..Len(ps) |-> Flat(TrimSpace(ps[k]))]

\* tbl.Inherits, inh the match of reInherits
InheritsOf(stmt, inh) ==
  IF inh.ok THEN TrimmedAll(Split(Sub(stmt, inh, 1), ",")) ELSE <<>>

\* tbl.PartitionBy, part the match of rePartitionBy
PartitionByOf(stmt, part) ==
  IF part.ok THEN Flat(TrimSuffix(TrimSpace(Sub(stmt, part, 1)), <<";">>)) ELSE ""

\* CREATE TABLE from the body on: b is what parseTableBody gave
CreateTableWithBody(q, unlogged, stmt, b, schema) ==
  IF b.panic THEN Crash(schema)
  ELSE Keep([schema EXCEPT
         !.Constraints = @ \o b.cons,
         !.Tables = Append(@,
           [SchemaName  |-> q.schema,
            TableName   |-> q.name,
            Columns     |-> b.cols,
            Unlogged    |-> unlogged,
            Inherits    |-> InheritsOf(stmt, FindStringSubmatchIndex(reInherits, stmt)),
            PartitionBy |-> PartitionByOf(stmt,
                              FindStringSubmatchIndex(rePartitionBy, stmt))])])

\* if body != "" { parseTableBody(body, &tbl, s, schema) }
TableBodyOf(body, tblSchema, tblName) ==
  IF body # <<>> THEN parseTableBody(body, tblSchema, tblName) ELSE NoPart

\* CREATE TABLE after splitQualified gave q
CreateTableNamed(q, unlogged, stmt, schema) ==
  IF q.panic THEN Crash(schema)
  ELSE IF q.schema \in excludedSchemas THEN Keep(schema)
  ELSE CreateTableWithBody(q, unlogged, stmt,
         TableBodyOf(extractParenContent(stmt), q.schema, q.name), schema)

\* CREATE TABLE, m the match of reCreateTable
DoCreateTable(m, stmt, searchPath, schema) ==
  IF ~MatchString(reCreateAtStart, stmt) THEN Keep(schema)
  ELSE CreateTableNamed(splitQualified(Sub(stmt, m, 2), searchPath),
                        Sub(stmt, m, 1) # <<>>, stmt, schema)

\* ALTER TABLE ADD CONSTRAINT, the end: Deferrable, InitiallyDeferred, append
AppendConstraint(con, stmt, schema) ==
  Keep([schema EXCEPT !.Constraints = Append(@,
         [con EXCEPT !.Deferrable = IsDeferrable(stmt),
                     !.InitiallyDeferred = MatchString(reInitiallyDeferred, stmt)])])

\* ALTER TABLE ADD CONSTRAINT, the FK specifics; fk is what reFkReferences gave
AddForeignKey(con, fk, afterType, stmt, schema) ==
  IF fk.panic THEN Crash(schema)
  ELSE AppendConstraint(
         [con EXCEPT
            !.RefSchema  = fk.RefSchema,
            !.RefTable   = fk.RefTable,
            !.RefColumns = fk.RefColumns,
            !.OnDelete   = Flat(ToUpper(ReplaceDoubleSpace(Sub(afterType,
                             FindStringSubmatchIndex(reFkOnDelete, afterType), 1)))),
            !.OnUpdate   = Flat(ToUpper(ReplaceDoubleSpace(Sub(afterType,
                             FindStringSubmatchIndex(reFkOnUpdate, afterType), 1))))],
         stmt, schema)

\* ALTER TABLE ADD CONSTRAINT, the columns from the parentheses after the kind
AddConstraintColumns(con, afterType, colContent, stmt, searchPath, schema) ==
  IF colContent # <<>> /\ con.ConstraintType # "EXCLUDE"
       /\ parseColumnListPanics(colContent)
  THEN Crash(schema)
  ELSE IF con.ConstraintType = "FOREIGN KEY"
  THEN AddForeignKey([con EXCEPT !.Columns = parseColumnList(colContent)],
                     FkReference(afterType, searchPath), afterType, stmt, schema)
  ELSE AppendConstraint(
         [con EXCEPT !.Columns = IF colContent # <<>>
                                      /\ con.ConstraintType # "EXCLUDE"
                                   THEN parseColumnList(colContent)
                                   ELSE <<>>],
         stmt, schema)

\* ALTER TABLE ADD CONSTRAINT after splitQualified gave q
AddConstraintNamed(q, m, stmt, searchPath, schema) ==
  IF q.panic THEN Crash(schema)
  ELSE IF q.schema \in excludedSchemas THEN Keep(schema)
  ELSE IF UnquotePanics(Sub(stmt, m, 2)) THEN Crash(schema)
  ELSE AddConstraintColumns(
         NewConstraint(Flat(unquote(Sub(stmt, m, 2))),
                       Flat(ToUpper(ReplaceDoubleSpace(Sub(stmt, m, 3)))),
                       q.schema, q.name),
         From(stmt, m.g[3][2]),
         extractParenContent(From(stmt, m.g[3][2])),
         stmt, searchPath, schema)

\* ALTER TABLE ADD CONSTRAINT, m the match of reAlterAddConstraint
DoAlterAddConstraint(m, stmt, searchPath, schema) ==
  AddConstraintNamed(splitQualified(Sub(stmt, m, 1), searchPath), m, stmt,
                     searchPath, schema)

\* idx.Method, method the match of reIndexMethod
IndexMethodOf(stmt, method) ==
  IF method.ok THEN Flat(ToLower(Sub(stmt, method, 1))) ELSE "btree"

\* CREATE INDEX, m the match of reCreateIndex
DoCreateIndex(m, stmt, searchPath, schema) ==
  LET q          == splitQualified(Sub(stmt, m, 3), searchPath)
      colContent == extractParenContent(From(stmt, m.g[3][2]))
  IN  IF UnquotePanics(Sub(stmt, m, 2)) \/ q.panic THEN Crash(schema)
      ELSE IF q.schema \in excludedSchemas THEN Keep(schema)
      ELSE IF colContent # <<>> /\ parseColumnListPanics(colContent)
      THEN Crash(schema)
      ELSE Keep([schema EXCEPT !.Indexes = Append(@,
             [Name        |-> Flat(unquote(Sub(stmt, m, 2))),
              TableSchema |-> q.schema,
              TableName   |-> q.name,
              Columns     |-> IF colContent # <<>>
                              THEN parseColumnList(colContent) ELSE <<>>,
              IsUnique    |-> Sub(stmt, m, 1) # <<>>,
              Method      |-> IndexMethodOf(stmt,
                                FindStringSubmatchIndex(reIndexMethod, stmt))])])

\* ColumnIndexFrom with a bug: the column's name is not compared
ColumnIndexAny(cols, i, col) == IF i > Len(cols) THEN 0 ELSE i

RECURSIVE ColumnIndexFrom(_, _, _)
\* the loop over tbl.Columns from index i: the first column with the name,
\* 0 when there is none
ColumnIndexFrom(cols, i, col) ==
  IF i > Len(cols) THEN 0
  ELSE IF cols[i].Name = col THEN i
  ELSE ColumnIndexFrom(cols, i + 1, col)

\* DoAlterSetDefault with a bug: the loop over the columns compares no name
\* and has no break
SetDefaultOnEveryColumn(m, stmt, searchPath, schema) ==
  LET q  == splitQualified(Sub(stmt, m, 1), searchPath)
      ti == GetTable(schema, q.schema, q.name)
  IN  IF q.panic \/ UnquotePanics(Sub(stmt, m, 2)) THEN Crash(schema)
      ELSE IF q.schema \in excludedSchemas \/ ti = 0 THEN Keep(schema)
      ELSE Keep([schema EXCEPT !.Tables[ti].Columns =
                   [j \in DOMAIN @ |->
                      [@[j] EXCEPT !.DefaultExpr = Flat(TrimSpace(Sub(stmt, m, 3)))]]])

\* ALTER TABLE SET DEFAULT, m the match of reAlterSetDefault
DoAlterSetDefault(m, stmt, searchPath, schema) ==
  LET q  == splitQualified(Sub(stmt, m, 1), searchPath)
      ti == GetTable(schema, q.schema, q.name)
      ci == ColumnIndexFrom(schema.Tables[ti].Columns, 1,
                            Flat(unquote(Sub(stmt, m, 2))))
  IN  IF q.panic \/ UnquotePanics(Sub(stmt, m, 2)) THEN Crash(schema)
      ELSE IF q.schema \in excludedSchemas \/ ti = 0 THEN Keep(schema)
      ELSE IF ci = 0 THEN Keep(schema)
      ELSE Keep([schema EXCEPT !.Tables[ti].Columns[ci].DefaultExpr =
                   Flat(TrimSpace(Sub(stmt, m, 3)))])

\* ALTER TABLE ADD GENERATED AS IDENTITY, m the match of reAlterAddIdentity
DoAlterAddIdentity(m, stmt, searchPath, schema) ==
  LET q  == splitQualified(Sub(stmt, m, 1), searchPath)
      ti == GetTable(schema, q.schema, q.name)
      ci == ColumnIndexFrom(schema.Tables[ti].Columns, 1,
                            Flat(unquote(Sub(stmt, m, 2))))
  IN  IF q.panic \/ UnquotePanics(Sub(stmt, m, 2)) THEN Crash(schema)
      ELSE IF q.schema \in excludedSchemas \/ ti = 0 THEN Keep(schema)
      ELSE IF ci = 0 THEN Keep(schema)
      ELSE Keep([schema EXCEPT !.Tables[ti].Columns[ci].Identity =
                   Flat(ToUpper(ReplaceDoubleSpace(Sub(stmt, m, 3))))])

RECURSIVE SequenceIndexFrom(_, _, _, _)
\* the loop over schema.Sequences from index i: the first sequence with the
\* schema and name, 0 when there is none
SequenceIndexFrom(seqs, i, schema, name) ==
  IF i > Len(seqs) THEN 0
  ELSE IF seqs[i].SchemaName = schema /\ seqs[i].SequenceName = name THEN i
  ELSE SequenceIndexFrom(seqs, i + 1, schema, name)

\* ALTER SEQUENCE OWNED BY, m the match of reAlterSeqOwned
DoAlterSeqOwned(m, stmt, searchPath, schema) ==
  LET sq == splitQualified(Sub(stmt, m, 1), searchPath)
      tq == splitQualified(Sub(stmt, m, 2), searchPath)
      si == SequenceIndexFrom(schema.Sequences, 1, sq.schema, sq.name)
  IN  IF sq.panic \/ tq.panic \/ UnquotePanics(Sub(stmt, m, 3)) THEN Crash(schema)
      ELSE IF si = 0 THEN Keep(schema)
      ELSE Keep([schema EXCEPT
                   !.Sequences[si].OwnedByTable  = tq.schema \o "." \o tq.name,
                   !.Sequences[si].OwnedByColumn = Flat(unquote(Sub(stmt, m, 3)))])

\* CREATE RULE, m the match of reCreateRule
DoCreateRule(m, stmt, searchPath, schema) ==
  LET q == splitQualified(Sub(stmt, m, 3), searchPath)
  IN  IF UnquotePanics(Sub(stmt, m, 1)) \/ q.panic THEN Crash(schema)
      ELSE IF q.schema \notin excludedSchemas
      THEN Keep([schema EXCEPT !.Rules = Append(@,
             [SchemaName |-> q.schema,
              TableName  |-> q.name,
              RuleName   |-> Flat(unquote(Sub(stmt, m, 1))),
              Event      |-> Flat(ToUpper(Sub(stmt, m, 2))),
              IsInstead  |-> Sub(stmt, m, 4) # <<>>])])
      ELSE Keep(schema)

\* the branch of processStatement that takes a statement: the first, in the
\* order of the code, whose condition holds; "none" when no one does
Recognizer(stmt, upper) ==
  IF MatchString(reCreateExtension, stmt) /\ HasPrefix(TrimSpace(upper), <<"CREATE">>)
  THEN "extension"
  ELSE IF MatchString(reCreateTypeEnum, stmt) THEN "enum"
  ELSE IF MatchString(reCreateSequence, stmt)
          /\ Contains(upper, <<"CREATE", " ", "SEQUENCE">>)
  THEN "sequence"
  ELSE IF MatchString(reCreateTable, stmt) THEN "table"
  ELSE IF MatchString(reAlterAddConstraint, stmt) THEN "add_constraint"
  ELSE IF MatchString(reCreateIndex, stmt) THEN "index"
  ELSE IF MatchString(reAlterSetDefault, stmt) THEN "set_default"
  ELSE IF MatchString(reAlterAddIdentity, stmt) THEN "add_identity"
  ELSE IF MatchString(reAlterSeqOwned, stmt) THEN "seq_owned"
  ELSE IF MatchString(reCreateRule, stmt) THEN "rule"
  ELSE "none"

\* the body of the branch r of processStatement
Branch(r, stmt, searchPath, schema) ==
  CASE r = "extension" ->
         DoCreateExtension(FindStringSubmatchIndex(reCreateExtension, stmt),
                           stmt, schema)
    [] r = "enum" ->
         DoCreateTypeEnum(FindStringSubmatchIndex(reCreateTypeEnum, stmt),
                          stmt, searchPath, schema)
    [] r = "sequence" ->
         DoCreateSequence(FindStringSubmatchIndex(reCreateSequence, stmt),
                          stmt, searchPath, schema)
    [] r = "table" ->
         DoCreateTable(FindStringSubmatchIndex(reCreateTable, stmt),
                       stmt, searchPath, schema)
    [] r = "add_constraint" ->
         DoAlterAddConstraint(FindStringSubmatchIndex(reAlterAddConstraint, stmt),
                              stmt, searchPath, schema)
    [] r = "index" ->
         DoCreateIndex(FindStringSubmatchIndex(reCreateIndex, stmt),
                       stmt, searchPath, schema)
    [] r = "set_default" ->
         DoAlterSetDefault(FindStringSubmatchIndex(reAlterSetDefault, stmt),
                           stmt, searchPath, schema)
    [] r = "add_identity" ->
         DoAlterAddIdentity(FindStringSubmatchIndex(reAlterAddIdentity, stmt),
                            stmt, searchPath, schema)
    [] r = "seq_owned" ->
         DoAlterSeqOwned(FindStringSubmatchIndex(reAlterSeqOwned, stmt),
                         stmt, searchPath, schema)
    [] r = "rule" ->
         DoCreateRule(FindStringSubmatchIndex(reCreateRule, stmt),
                      stmt, searchPath, schema)
    [] OTHER -> Keep(schema)

\* processStatement with a bug: each statement starts from an empty schema
processStatementOnNewSchema(stmt, searchPath, schema) ==
  Branch(Recognizer(stmt, ToUpper(TrimSpace(stmt))), stmt, searchPath,
         NewParsedSchema)

\* processStatement processes a single complete SQL statement.
processStatement(stmt, searchPath, schema) ==
  Branch(Recognizer(stmt, ToUpper(TrimSpace(stmt))), stmt, searchPath, schema)

\* ------------------------------------------------------ splitStatements

\* schema.PgVersion after a comment line
PgVersionAfter(stripped, pgVersion, m) ==
  IF pgVersion = "" /\ m.ok THEN Flat(Sub(stripped, m, 1)) ELSE pgVersion

RECURSIVE FirstSchema(_, _, _)
\* the loop over the parts of a search_path value: the first entry that is
\* neither empty nor pg_catalog becomes the search path
FirstSchema(parts, i, searchPath) ==
  IF i > Len(parts) THEN searchPath
  ELSE IF Trim(TrimSpace(parts[i]), {"'", "\""}) # <<>>
          /\ Flat(Trim(TrimSpace(parts[i]), {"'", "\""})) # "pg_catalog"
       THEN Flat(Trim(TrimSpace(parts[i]), {"'", "\""}))
       ELSE FirstSchema(parts, i + 1, searchPath)

\* spVal := m[1]; if spVal == "" { spVal = m[2] }
SearchPathValue(stripped, m) ==
  IF Sub(stripped, m, 1) # <<>> THEN Sub(stripped, m, 1) ELSE Sub(stripped, m, 2)

\* the search path after a line, m the match of reSetSearchPath
SearchPathAfter(stripped, m, searchPath) ==
  IF ~m.ok \/ SearchPathValue(stripped, m) = <<>> THEN searchPath
  ELSE FirstSchema(Split(SearchPathValue(stripped, m), ","), 1, searchPath)

\* Track search_path changes: the search path after a line
TrackSearchPath(stripped, searchPath) ==
  SearchPathAfter(stripped, FindStringSubmatchIndex(reSetSearchPath, stripped),
                  searchPath)

\* whether the tag opens a dollar-quoted string on the line: it does unless
\* the rest of the line after its first occurrence holds the tag again
OpensDollarQuote(stripped, tag) ==
  ~Contains(From(stripped, Index(stripped, tag) + Len(tag)), tag)

\* the dollar-quote state after a line outside a dollar-quoted string, m the
\* match of reDollarQuote
DollarQuoteOpened(stripped, m, inDQ, tag) ==
  IF m.ok /\ OpensDollarQuote(stripped, Sub(stripped, m, 1))
  THEN [inDollarQuote |-> TRUE, dollarTag |-> Sub(stripped, m, 1)]
  ELSE [inDollarQuote |-> inDQ, dollarTag |-> tag]

\* Handle dollar-quoted strings: [inDollarQuote, dollarTag] after a line
TrackDollarQuote(stripped, inDQ, tag) ==
  IF ~inDQ
  THEN DollarQuoteOpened(stripped,
         FindStringSubmatchIndex(reDollarQuote, stripped), inDQ, tag)
  ELSE IF Contains(stripped, tag)
       THEN [inDollarQuote |-> FALSE, dollarTag |-> <<>>]
       ELSE [inDollarQuote |-> inDQ, dollarTag |-> tag]

\* a line the loop skips as a comment / as blank
IsCommentLine(line) == HasPrefix(TrimSpace(line), <<"-", "-">>)
IsBlankLine(line) == TrimSpace(line) = <<>>

\* --------------------------------------------------------------- checks
\* A Check is modelled by what GetChecks reads of it: [Name, Category, Mode].

\* the names and categories of the checks, in the order of Go's < on strings
StringOrder ==
  <<"any_check", "config", "nonexistent", "rules", "schema", "spock_gucs">>

\* a < b on strings
StringLess(a, b) ==
  \E i, j \in DOMAIN StringOrder :
    i < j /\ StringOrder[i] = a /\ StringOrder[j] = b

\* catSet: the set of the categories asked for
CatSet(categories) == {categories[i] : i \in DOMAIN categories}

\* the two filters of the loop over the registry: a check is kept unless one
\* of them says continue
KeepsCheck(c, mode, catSet) ==
  /\ ~(mode # "" /\ c.Mode # mode /\ c.Mode # "both")
  /\ ~(Cardinality(catSet) > 0 /\ c.Category \notin catSet)

\* result after the loop over the registry
FilterChecks(reg, mode, categories) ==
  SelectSeq(reg, LAMBDA c : KeepsCheck(c, mode, CatSet(categories)))

\* the less function handed to sort.Slice
CheckLess(x, y) ==
  IF x.Category # y.Category
  THEN StringLess(x.Category, y.Category)
  ELSE StringLess(x.Name, y.Name)

\* the orders sort.Slice may leave a slice in: every permutation of it in
\* which no element is less than one before it (the sort is not stable)
SortSlice(result) ==
  {[i \in DOMAIN result |-> result[f[i]]] :
     f \in {g \in [DOMAIN result -> DOMAIN result] :
              /\ \A i, j \in DOMAIN result : i # j => g[i] # g[j]
              /\ \A i, j \in DOMAIN result :
                   i < j => ~CheckLess(result[g[j]], result[g[i]])}}

\* GetChecks without the sort
GetChecksUnsorted(reg, mode, categories) == {FilterChecks(reg, mode, categories)}

\* GetChecks returns all registered checks filtered by mode and categories,
\* sorted by (category, name): the set of the slices it may return
GetChecks(reg, mode, categories) == SortSlice(FilterChecks(reg, mode, categories))

\* -------------------------------------------------------------- RunAnalyze
\* The offline analysis of a parsed schema.  A check is [Name, Category,
\* Description]; its function Fn is not part of the model's data: what a call
\* of it does is an input of the step that calls it.

\* StaticChecks is the list of 19 checks that can run on parsed schema.
StaticChecks ==
  << [Name |-> "primary_keys", Category |-> "schema",
      Description |-> "Tables without primary keys"],
     [Name |-> "sequence_pks", Category |-> "schema",
      Description |-> "Primary keys using standard sequences"],
     [Name |-> "foreign_keys", Category |-> "schema",
      Description |-> "Foreign key relationships"],
     [Name |-> "deferrable_constraints", Category |-> "schema",
      Description |-> "Deferrable unique/PK constraints"],
     [Name |-> "exclusion_constraints", Category |-> "schema",
      Description |-> "Exclusion constraints"],
     [Name |-> "missing_fk_indexes", Category |-> "schema",
      Description |-> "Foreign key columns without indexes"],
     [Name |-> "unlogged_tables", Category |-> "schema",
      Description |-> "UNLOGGED tables"],
     [Name |-> "large_objects", Category |-> "schema",
      Description |-> "Large object (OID column) usage"],
     [Name |-> "column_defaults", Category |-> "schema",
      Description |-> "Volatile column defaults"],
     [Name |-> "numeric_columns", Category |-> "schema",
      Description |-> "Numeric columns (Delta-Apply candidates)"],
     [Name |-> "multiple_unique_indexes", Category |-> "schema",
      Description |-> "Tables with multiple unique indexes"],
     [Name |-> "enum_types", Category |-> "schema",
      Description |-> "ENUM types"],
     [Name |-> "generated_columns", Category |-> "schema",
      Description |-> "Generated/stored columns"],
     [Name |-> "rules", Category |-> "schema",
      Description |-> "Rules on tables"],
     [Name |-> "inheritance", Category |-> "schema",
      Description |-> "Table inheritance (non-partition)"],
     [Name |-> "installed_extensions", Category |-> "extensions",
      Description |-> "Installed extensions audit"],
     [Name |-> "sequence_audit", Category |-> "sequences",
      Description |-> "Sequence inventory and ownership"],
     [Name |-> "sequence_data_types", Category |-> "sequences",
      Description |-> "Sequence data types"],
     [Name |-> "pg_version", Category |-> "config",
      Description |-> "PostgreSQL version compatibility with Spock 5"] >>

\* SkippedChecks is the list of 37 checks that require a live database
\* connection.
SkippedChecks ==
  << [Name |-> "wal_level", Category |-> "replication",
      Description |-> "WAL level check (wal_level = logical)"],
     [Name |-> "max_replication_slots", Category |-> "replication",
      Description |-> "Sufficient replication slots for Spock nodes"],
     [Name |-> "max_worker_processes", Category |-> "replication",
      Description |-> "Sufficient worker processes for Spock apply workers"],
     [Name |-> "max_wal_senders", Category |-> "replication",
      Description |-> "Sufficient WAL senders for replication connections"],
     [Name |-> "database_encoding", Category |-> "replication",
      Description |-> "Database encoding consistency across nodes"],
     [Name |-> "hba_config", Category |-> "replication",
      Description |-> "pg_hba.conf allows replication connections"],
     [Name |-> "stale_replication_slots", Category |-> "replication",
      Description |-> "Check for stale replication slots"],
     [Name |-> "multiple_databases", Category |-> "replication",
      Description |-> "Multiple databases in the cluster"],
     [Name |-> "repset_membership", Category |-> "replication",
      Description |-> "Spock replication set membership audit"],
     [Name |-> "subscription_health", Category |-> "replication",
      Description |-> "Spock subscription health check"],
     [Name |-> "conflict_log", Category |-> "replication",
      Description |-> "Spock conflict log review"],
     [Name |-> "exception_log", Category |-> "replication",
      Description |-> "Spock exception log review"],
     [Name |-> "track_commit_timestamp", Category |-> "config",
      Description |-> "track_commit_timestamp GUC enabled"],
     [Name |-> "shared_preload_libraries", Category |-> "config",
      Description |-> "shared_preload_libraries includes spock"],
     [Name |-> "spock_gucs", Category |-> "config",
      Description |-> "Spock-specific GUC settings"],
     [Name |-> "idle_transaction_timeout", Category |-> "config",
      Description |-> "Idle transaction timeout settings"],
     [Name |-> "pg_minor_version", Category |-> "config",
      Description |-> "PostgreSQL minor version patch level"],
     [Name |-> "parallel_apply", Category |-> "config",
      Description |-> "Parallel apply worker settings"],
     [Name |-> "timezone_config", Category |-> "config",
      Description |-> "Timezone configuration consistency"],
     [Name |-> "snowflake_check", Category |-> "extensions",
      Description |-> "pgEdge snowflake extension installation"],
     [Name |-> "pg_stat_statements_check", Category |-> "extensions",
      Description |-> "pg_stat_statements availability"],
     [Name |-> "lolor_check", Category |-> "extensions",
      Description |-> "LOLOR extension for large object replication"],
     [Name |-> "advisory_locks", Category |-> "sql_patterns",
      Description |-> "Advisory lock usage in queries"],
     [Name |-> "ddl_statements", Category |-> "sql_patterns",
      Description |-> "DDL statements in pg_stat_statements"],
     [Name |-> "truncate_cascade", Category |-> "sql_patterns",
      Description |-> "TRUNCATE CASCADE usage"],
     [Name |-> "concurrent_indexes", Category |-> "sql_patterns",
      Description |-> "Concurrent index operations"],
     [Name |-> "temp_table_queries", Category |-> "sql_patterns",
      Description |-> "Temporary table usage in queries"],
     [Name |-> "stored_procedures", Category |-> "functions",
      Description |-> "Stored procedures and functions audit"],
     [Name |-> "trigger_functions", Category |-> "functions",
      Description |-> "Trigger functions audit"],
     [Name |-> "views_audit", Category |-> "functions",
      Description |-> "Views audit"],
     [Name |-> "tables_update_delete_no_pk", Category |-> "schema",
      Description |-> "UPDATE/DELETE on tables without PKs (requires pg_stat)"],
     [Name |-> "row_level_security", Category |-> "schema",
      Description |-> "Row-level security policies"],
     [Name |-> "partitioned_tables", Category |-> "schema",
      Description |-> "Partitioned table hierarchy"],
     [Name |-> "tablespace_usage", Category |-> "schema",
      Description |-> "Non-default tablespace usage"],
     [Name |-> "temp_tables", Category |-> "schema",
      Description |-> "Temporary table existence"],
     [Name |-> "event_triggers", Category |-> "schema",
      Description |-> "Event triggers"],
     [Name |-> "notify_listen", Category |-> "schema",
      Description |-> "NOTIFY/LISTEN channel usage"] >>

\* catFilter == nil || catFilter[category]: catFilter is nil for an empty
\* list of categories and otherwise the set of the categories of the list
PassesFilter(categories, category) ==
  Len(categories) = 0 \/ \E k \in DOMAIN categories : categories[k] = category

\* Filter checks by category
ChecksToRun(categories) ==
  SelectSeq(StaticChecks, LAMBDA check : PassesFilter(categories, check.Category))

\* Create report: the fields that do not depend on the file path and the
\* clock
NewReport(schema) ==
  [Port        |-> 0,
   PGVersion   |-> IF schema.PgVersion = "" THEN "unknown" ELSE schema.PgVersion,
   SpockTarget |-> "5.0",
   ScanMode    |-> "analyze",
   Results     |-> <<>>]

\* what a call of a check function does: it returns findings, or it panics
\* with a value
CheckOutcomes ==
  {[panic |-> FALSE, findings |-> <<>>, value |-> ""],
   [panic |-> FALSE, findings |-> <<"finding">>, value |-> ""],
   [panic |-> TRUE, findings |-> <<>>, value |-> "boom"]}

\* the result of a check: result.Findings = check.Fn(...) when the function
\* returns, and result.Error = fmt.Sprintf("panic: %v", r) when the deferred
\* function recovers from its panic
CheckResult(check, outcome) ==
  [CheckName   |-> check.Name,
   Category    |-> check.Category,
   Description |-> check.Description,
   Findings    |-> IF outcome.panic THEN <<>> ELSE outcome.findings,
   Error       |-> IF outcome.panic THEN "panic: " \o outcome.value ELSE "",
   Skipped     |-> FALSE,
   SkipReason  |-> ""]

\* the result added for a check that needs a live database connection
SkippedResult(skip) ==
  [CheckName   |-> skip.Name,
   Category    |-> skip.Category,
   Description |-> skip.Description,
   Findings    |-> <<>>,
   Error       |-> "",
   Skipped     |-> TRUE,
   SkipReason  |-> "Requires live database connection"]

RECURSIVE SkippedResults(_, _)
\* Add skipped checks: the loop over SkippedChecks from index k on
SkippedResults(categories, k) ==
  IF k > Len(SkippedChecks) THEN <<>>
  ELSE IF ~PassesFilter(categories, SkippedChecks[k].Category)
       THEN SkippedResults(categories, k + 1)
  ELSE <<SkippedResult(SkippedChecks[k])>> \o SkippedResults(categories, k + 1)

\* ------------------------------------------------------------- inputs
\* An input file is a sequence of chunks, each a few lines of a dump; the
\* text of the file is the lines of its chunks, in order.

\*CORPUS-BEGIN
\* the head of a dump: comment lines, a blank line, the server version
\*   --
\*   -- PostgreSQL database dump
\*   --
\*
\*   -- Dumped from database version 15.4 (Debian 15.4-1)
\*   -- Dumped by pg_dump version 16.1
HeaderComment ==
  << <<"-", "-">>,
     <<"-", "-", " ", "PostgreSQL", " ", "database", " ", "dump">>,
     <<"-", "-">>,
     <<>>,
     <<"-", "-", " ", "Dumped", " ", "from", " ", "database", " ", "version",
       " ", "15", ".", "4", " ", "(", "Debian", " ", "15", ".", "4", "-",
       "1", ")">>,
     <<"-", "-", " ", "Dumped", " ", "by", " ", "pg_dump", " ", "version",
       " ", "16", ".", "1">> >>

\* an old-style search path
\*   SET search_path = app, pg_catalog;
SetPath ==
  << <<"SET", " ", "search_path", " ", "=", " ", "app", ",", " ",
       "pg_catalog", ";">> >>

\* the search path pg_dump sets
\*   SELECT pg_catalog.set_config('search_path', '', false);
SelectPath ==
  << <<"SELECT", " ", "pg_catalog", ".", "set_config", "(", "'",
       "search_path", "'", ",", " ", "'", "'", ",", " ", "false", ")", ";">> >>

\* a table with a column-level primary key and a column-level foreign key
\*   create table public.orders (id integer primary key, customer_id text references public.customers(id) on delete cascade);
OrdersTable ==
  << <<"create", " ", "table", " ", "public", ".", "orders", " ", "(", "id",
       " ", "integer", " ", "primary", " ", "key", ",", " ", "customer_id",
       " ", "text", " ", "references", " ", "public", ".", "customers", "(",
       "id", ")", " ", "on", " ", "delete", " ", "cascade", ")", ";">> >>

\* a default set after the table
\*   alter table only public.orders alter column id set default nextval('public.orders_id_seq'::regclass);
OrdersSetDefault ==
  << <<"alter", " ", "table", " ", "only", " ", "public", ".", "orders", " ",
       "alter", " ", "column", " ", "id", " ", "set", " ", "default", " ",
       "nextval", "(", "'", "public", ".", "orders_id_seq", "'", ":", ":",
       "regclass", ")", ";">> >>

\* three columns, as pg_dump writes them
\*   CREATE TABLE public.t (
\*       id integer NOT NULL,
\*       amount numeric(10,2) DEFAULT 0,
\*       note text
\*   );
PlainTable ==
  << <<"CREATE", " ", "TABLE", " ", "public", ".", "t", " ", "(">>,
     <<" ", " ", " ", " ", "id", " ", "integer", " ", "NOT", " ", "NULL",
       ",">>,
     <<" ", " ", " ", " ", "amount", " ", "numeric", "(", "10", ",", "2",
       ")", " ", "DEFAULT", " ", "0", ",">>,
     <<" ", " ", " ", " ", "note", " ", "text">>,
     <<")", ";">> >>

\* a column whose quoted name is a constraint keyword
\*   CREATE TABLE public.t (
\*       "check" integer,
\*       b text
\*   );
KeywordColTable ==
  << <<"CREATE", " ", "TABLE", " ", "public", ".", "t", " ", "(">>,
     <<" ", " ", " ", " ", "\"", "check", "\"", " ", "integer", ",">>,
     <<" ", " ", " ", " ", "b", " ", "text">>,
     <<")", ";">> >>

\* a default whose string literal holds a comma
\*   CREATE TABLE public.t (
\*       note text DEFAULT 'hello, big world',
\*       b integer
\*   );
CommaDefaultTable ==
  << <<"CREATE", " ", "TABLE", " ", "public", ".", "t", " ", "(">>,
     <<" ", " ", " ", " ", "note", " ", "text", " ", "DEFAULT", " ", "'",
       "hello", ",", " ", "big", " ", "world", "'", ",">>,
     <<" ", " ", " ", " ", "b", " ", "integer">>,
     <<")", ";">> >>

\* inline PRIMARY KEY, UNIQUE and FOREIGN KEY constraints
\*   CREATE TABLE public.t (
\*       a integer NOT NULL,
\*       b integer,
\*       CONSTRAINT t_pkey PRIMARY KEY (a),
\*       UNIQUE (b),
\*       CONSTRAINT t_b_fkey FOREIGN KEY (b) REFERENCES public.customers(id) ON DELETE SET NULL
\*   );
InlineKeysTable ==
  << <<"CREATE", " ", "TABLE", " ", "public", ".", "t", " ", "(">>,
     <<" ", " ", " ", " ", "a", " ", "integer", " ", "NOT", " ", "NULL", ",">>,
     <<" ", " ", " ", " ", "b", " ", "integer", ",">>,
     <<" ", " ", " ", " ", "CONSTRAINT", " ", "t_pkey", " ", "PRIMARY", " ",
       "KEY", " ", "(", "a", ")", ",">>,
     <<" ", " ", " ", " ", "UNIQUE", " ", "(", "b", ")", ",">>,
     <<" ", " ", " ", " ", "CONSTRAINT", " ", "t_b_fkey", " ", "FOREIGN",
       " ", "KEY", " ", "(", "b", ")", " ", "REFERENCES", " ", "public", ".",
       "customers", "(", "id", ")", " ", "ON", " ", "DELETE", " ", "SET",
       " ", "NULL">>,
     <<")", ";">> >>

\* an inline CHECK constraint
\*   CREATE TABLE public.t (
\*       a integer,
\*       CONSTRAINT t_a_check CHECK ((a > 0))
\*   );
CheckTable ==
  << <<"CREATE", " ", "TABLE", " ", "public", ".", "t", " ", "(">>,
     <<" ", " ", " ", " ", "a", " ", "integer", ",">>,
     <<" ", " ", " ", " ", "CONSTRAINT", " ", "t_a_check", " ", "CHECK", " ",
       "(", "(", "a", " ", ">", " ", "0", ")", ")">>,
     <<")", ";">> >>

\* an inline EXCLUDE constraint
\*   CREATE TABLE public.t (
\*       a integer,
\*       EXCLUDE USING gist (a WITH =)
\*   );
ExcludeTable ==
  << <<"CREATE", " ", "TABLE", " ", "public", ".", "t", " ", "(">>,
     <<" ", " ", " ", " ", "a", " ", "integer", ",">>,
     <<" ", " ", " ", " ", "EXCLUDE", " ", "USING", " ", "gist", " ", "(",
       "a", " ", "WITH", " ", "=", ")">>,
     <<")", ";">> >>

\* a function whose body is quoted with $$
\*   CREATE FUNCTION public.f() RETURNS integer
\*       LANGUAGE plpgsql
\*       AS $$
\*   BEGIN
\*     RETURN 1;
\*   END;
\*   $$;
FnEmptyTag ==
  << <<"CREATE", " ", "FUNCTION", " ", "public", ".", "f", "(", ")", " ",
       "RETURNS", " ", "integer">>,
     <<" ", " ", " ", " ", "LANGUAGE", " ", "plpgsql">>,
     <<" ", " ", " ", " ", "AS", " ", "$", "$">>,
     <<"BEGIN">>,
     <<" ", " ", "RETURN", " ", "1", ";">>,
     <<"END", ";">>,
     <<"$", "$", ";">> >>

\* a function whose body is quoted with $_$ and holds a blank line, a comment and other dollar signs
\*   CREATE FUNCTION public.g(integer) RETURNS integer
\*       LANGUAGE sql
\*       AS $_$
\*   SELECT $1;
\*
\*   -- twice
\*   SELECT '$$';
\*   $_$;
FnNamedTag ==
  << <<"CREATE", " ", "FUNCTION", " ", "public", ".", "g", "(", "integer",
       ")", " ", "RETURNS", " ", "integer">>,
     <<" ", " ", " ", " ", "LANGUAGE", " ", "sql">>,
     <<" ", " ", " ", " ", "AS", " ", "$", "_", "$">>,
     <<"SELECT", " ", "$", "1", ";">>,
     <<>>,
     <<"-", "-", " ", "twice">>,
     <<"SELECT", " ", "'", "$", "$", "'", ";">>,
     <<"$", "_", "$", ";">> >>

\* a function whose body sets the search path
\*   CREATE FUNCTION app.h() RETURNS void
\*       LANGUAGE plpgsql
\*       AS $body$
\*   BEGIN
\*     SET search_path = other;
\*   END;
\*   $body$;
FnBodySetPath ==
  << <<"CREATE", " ", "FUNCTION", " ", "app", ".", "h", "(", ")", " ",
       "RETURNS", " ", "void">>,
     <<" ", " ", " ", " ", "LANGUAGE", " ", "plpgsql">>,
     <<" ", " ", " ", " ", "AS", " ", "$", "body", "$">>,
     <<"BEGIN">>,
     <<" ", " ", "SET", " ", "search_path", " ", "=", " ", "other", ";">>,
     <<"END", ";">>,
     <<"$", "body", "$", ";">> >>

\* a function whose quoted name holds dollar signs
\*   CREATE FUNCTION public."price$usd$x"() RETURNS integer
\*       LANGUAGE sql
\*       AS $$
\*   SELECT 1;
\*   $$;
FnDollarName ==
  << <<"CREATE", " ", "FUNCTION", " ", "public", ".", "\"", "price", "$",
       "usd", "$", "x", "\"", "(", ")", " ", "RETURNS", " ", "integer">>,
     <<" ", " ", " ", " ", "LANGUAGE", " ", "sql">>,
     <<" ", " ", " ", " ", "AS", " ", "$", "$">>,
     <<"SELECT", " ", "1", ";">>,
     <<"$", "$", ";">> >>

\* a function whose opening line holds a dollar-quoted default before the body
\*   CREATE FUNCTION public.k(a text DEFAULT $d$x$d$) RETURNS text AS $$
\*   BEGIN
\*     RETURN a;
\*   END;
\*   $$ LANGUAGE plpgsql;
FnDefaultQuoted ==
  << <<"CREATE", " ", "FUNCTION", " ", "public", ".", "k", "(", "a", " ",
       "text", " ", "DEFAULT", " ", "$", "d", "$", "x", "$", "d", "$", ")",
       " ", "RETURNS", " ", "text", " ", "AS", " ", "$", "$">>,
     <<"BEGIN">>,
     <<" ", " ", "RETURN", " ", "a", ";">>,
     <<"END", ";">>,
     <<"$", "$", " ", "LANGUAGE", " ", "plpgsql", ";">> >>

\* a function whose body creates a table
\*   CREATE FUNCTION public.mk() RETURNS void
\*       LANGUAGE plpgsql
\*       AS $$
\*   BEGIN
\*     CREATE TABLE IF NOT EXISTS public.t (id integer);
\*   END;
\*   $$;
FnCreatesTable ==
  << <<"CREATE", " ", "FUNCTION", " ", "public", ".", "mk", "(", ")", " ",
       "RETURNS", " ", "void">>,
     <<" ", " ", " ", " ", "LANGUAGE", " ", "plpgsql">>,
     <<" ", " ", " ", " ", "AS", " ", "$", "$">>,
     <<"BEGIN">>,
     <<" ", " ", "CREATE", " ", "TABLE", " ", "IF", " ", "NOT", " ",
       "EXISTS", " ", "public", ".", "t", " ", "(", "id", " ", "integer",
       ")", ";">>,
     <<"END", ";">>,
     <<"$", "$", ";">> >>

\* a dollar-quoted body that opens and closes on one line
\*   DO $$BEGIN NULL; END$$;
DoOneLine ==
  << <<"DO", " ", "$", "$", "BEGIN", " ", "NULL", ";", " ", "END", "$", "$",
       ";">> >>

\* an unqualified sequence
\*   CREATE SEQUENCE s_seq;
PlainSeq ==
  << <<"CREATE", " ", "SEQUENCE", " ", "s_seq", ";">> >>

\* a statement with no terminating semicolon
\*   CREATE TABLE public.u (a integer)
Unterminated ==
  << <<"CREATE", " ", "TABLE", " ", "public", ".", "u", " ", "(", "a", " ",
       "integer", ")">> >>

\* the orders table, as pg_dump writes it
\*   CREATE TABLE public.orders (
\*       id integer NOT NULL,
\*       customer_id text
\*   );
OrdersPlain ==
  << <<"CREATE", " ", "TABLE", " ", "public", ".", "orders", " ", "(">>,
     <<" ", " ", " ", " ", "id", " ", "integer", " ", "NOT", " ", "NULL",
       ",">>,
     <<" ", " ", " ", " ", "customer_id", " ", "text">>,
     <<")", ";">> >>

\* another table
\*   CREATE TABLE public.customers (
\*       id integer NOT NULL
\*   );
CustomersTable ==
  << <<"CREATE", " ", "TABLE", " ", "public", ".", "customers", " ", "(">>,
     <<" ", " ", " ", " ", "id", " ", "integer", " ", "NOT", " ", "NULL">>,
     <<")", ";">> >>

\* an identity added after the table
\*   ALTER TABLE public.orders ALTER COLUMN id ADD GENERATED BY DEFAULT AS IDENTITY (
\*       SEQUENCE NAME public.orders_id_seq
\*       START WITH 1
\*       INCREMENT BY 1
\*   );
OrdersAddIdentity ==
  << <<"ALTER", " ", "TABLE", " ", "public", ".", "orders", " ", "ALTER",
       " ", "COLUMN", " ", "id", " ", "ADD", " ", "GENERATED", " ", "BY",
       " ", "DEFAULT", " ", "AS", " ", "IDENTITY", " ", "(">>,
     <<" ", " ", " ", " ", "SEQUENCE", " ", "NAME", " ", "public", ".",
       "orders_id_seq">>,
     <<" ", " ", " ", " ", "START", " ", "WITH", " ", "1">>,
     <<" ", " ", " ", " ", "INCREMENT", " ", "BY", " ", "1">>,
     <<")", ";">> >>

\* a sequence
\*   CREATE SEQUENCE public.orders_id_seq
\*       START WITH 1
\*       INCREMENT BY 1
\*       NO MINVALUE
\*       NO MAXVALUE
\*       CACHE 1;
OrdersSeq ==
  << <<"CREATE", " ", "SEQUENCE", " ", "public", ".", "orders_id_seq">>,
     <<" ", " ", " ", " ", "START", " ", "WITH", " ", "1">>,
     <<" ", " ", " ", " ", "INCREMENT", " ", "BY", " ", "1">>,
     <<" ", " ", " ", " ", "NO", " ", "MINVALUE">>,
     <<" ", " ", " ", " ", "NO", " ", "MAXVALUE">>,
     <<" ", " ", " ", " ", "CACHE", " ", "1", ";">> >>

\* the ownership of the sequence
\*   ALTER SEQUENCE public.orders_id_seq OWNED BY public.orders.id;
OrdersSeqOwned ==
  << <<"ALTER", " ", "SEQUENCE", " ", "public", ".", "orders_id_seq", " ",
       "OWNED", " ", "BY", " ", "public", ".", "orders", ".", "id", ";">> >>

\* a default for a column the table does not have
\*   ALTER TABLE ONLY public.orders ALTER COLUMN nosuch SET DEFAULT 0;
NoColSetDefault ==
  << <<"ALTER", " ", "TABLE", " ", "ONLY", " ", "public", ".", "orders", " ",
       "ALTER", " ", "COLUMN", " ", "nosuch", " ", "SET", " ", "DEFAULT",
       " ", "0", ";">> >>

\* an extension installed in an excluded schema
\*   CREATE EXTENSION IF NOT EXISTS plpgsql WITH SCHEMA pg_catalog;
ExtPgCatalog ==
  << <<"CREATE", " ", "EXTENSION", " ", "IF", " ", "NOT", " ", "EXISTS", " ",
       "plpgsql", " ", "WITH", " ", "SCHEMA", " ", "pg_catalog", ";">> >>

\* an extension named like an excluded schema
\*   CREATE EXTENSION spock;
ExtSpock ==
  << <<"CREATE", " ", "EXTENSION", " ", "spock", ";">> >>

\* an extension installed in public
\*   CREATE EXTENSION IF NOT EXISTS pg_trgm WITH SCHEMA public;
ExtPublic ==
  << <<"CREATE", " ", "EXTENSION", " ", "IF", " ", "NOT", " ", "EXISTS", " ",
       "pg_trgm", " ", "WITH", " ", "SCHEMA", " ", "public", ";">> >>

\* a table, with an inline constraint, in an excluded schema
\*   CREATE TABLE spock.node (
\*       node_id integer NOT NULL,
\*       CONSTRAINT node_pkey PRIMARY KEY (node_id)
\*   );
TableSpock ==
  << <<"CREATE", " ", "TABLE", " ", "spock", ".", "node", " ", "(">>,
     <<" ", " ", " ", " ", "node_id", " ", "integer", " ", "NOT", " ",
       "NULL", ",">>,
     <<" ", " ", " ", " ", "CONSTRAINT", " ", "node_pkey", " ", "PRIMARY",
       " ", "KEY", " ", "(", "node_id", ")">>,
     <<")", ";">> >>

\* a search path that names an excluded schema
\*   SET search_path = spock, pg_catalog;
SetPathSpock ==
  << <<"SET", " ", "search_path", " ", "=", " ", "spock", ",", " ",
       "pg_catalog", ";">> >>

\* an unqualified table
\*   CREATE TABLE t (
\*       id integer
\*   );
UnqualTable ==
  << <<"CREATE", " ", "TABLE", " ", "t", " ", "(">>,
     <<" ", " ", " ", " ", "id", " ", "integer">>,
     <<")", ";">> >>

\* a constraint on a table of an excluded schema
\*   ALTER TABLE ONLY pg_toast.x
\*       ADD CONSTRAINT x_pkey PRIMARY KEY (id);
AddConPgToast ==
  << <<"ALTER", " ", "TABLE", " ", "ONLY", " ", "pg_toast", ".", "x">>,
     <<" ", " ", " ", " ", "ADD", " ", "CONSTRAINT", " ", "x_pkey", " ",
       "PRIMARY", " ", "KEY", " ", "(", "id", ")", ";">> >>

\* an index on a table of an excluded schema
\*   CREATE INDEX x_idx ON information_schema.x USING btree (a);
IndexInfo ==
  << <<"CREATE", " ", "INDEX", " ", "x_idx", " ", "ON", " ",
       "information_schema", ".", "x", " ", "USING", " ", "btree", " ", "(",
       "a", ")", ";">> >>

\* a sequence in an excluded schema
\*   CREATE SEQUENCE spock.s_seq;
SeqSpock ==
  << <<"CREATE", " ", "SEQUENCE", " ", "spock", ".", "s_seq", ";">> >>

\* an enum type in an excluded schema
\*   CREATE TYPE pg_catalog.mood AS ENUM (
\*       'sad',
\*       'ok'
\*   );
EnumCatalog ==
  << <<"CREATE", " ", "TYPE", " ", "pg_catalog", ".", "mood", " ", "AS", " ",
       "ENUM", " ", "(">>,
     <<" ", " ", " ", " ", "'", "sad", "'", ",">>,
     <<" ", " ", " ", " ", "'", "ok", "'">>,
     <<")", ";">> >>

\* a rule on a table of an excluded schema
\*   CREATE RULE r AS ON INSERT TO spock.node DO INSTEAD NOTHING;
RuleSpock ==
  << <<"CREATE", " ", "RULE", " ", "r", " ", "AS", " ", "ON", " ", "INSERT",
       " ", "TO", " ", "spock", ".", "node", " ", "DO", " ", "INSTEAD", " ",
       "NOTHING", ";">> >>

\* a column whose name is a lone double quote
\*   CREATE TABLE public.bad (
\*       " integer
\*   );
BadColumn ==
  << <<"CREATE", " ", "TABLE", " ", "public", ".", "bad", " ", "(">>,
     <<" ", " ", " ", " ", "\"", " ", "integer">>,
     <<")", ";">> >>

\* a table body that is never closed
\*   CREATE TABLE public.u (a integer;
Unbalanced ==
  << <<"CREATE", " ", "TABLE", " ", "public", ".", "u", " ", "(", "a", " ",
       "integer", ";">> >>

\* a number too large for 64 bits
\*   CREATE SEQUENCE public.big START WITH 99999999999999999999;
BigSeq ==
  << <<"CREATE", " ", "SEQUENCE", " ", "public", ".", "big", " ", "START",
       " ", "WITH", " ", "99999999999999999999", ";">> >>

\* a dollar-quoted body that is never closed
\*   CREATE FUNCTION public.g() RETURNS void AS $$
\*   SELECT 1;
FnUnclosed ==
  << <<"CREATE", " ", "FUNCTION", " ", "public", ".", "g", "(", ")", " ",
       "RETURNS", " ", "void", " ", "AS", " ", "$", "$">>,
     <<"SELECT", " ", "1", ";">> >>

\* a statement no recognizer knows
\*   FOO BAR (;
Garbage ==
  << <<"FOO", " ", "BAR", " ", "(", ";">> >>

\* a table body with empty and meaningless parts
\*   CREATE TABLE public.m (,,a);
EmptyCols ==
  << <<"CREATE", " ", "TABLE", " ", "public", ".", "m", " ", "(", ",", ",",
       "a", ")", ";">> >>

\* a well-formed table
\*   CREATE TABLE public.t (id integer);
GoodTable ==
  << <<"CREATE", " ", "TABLE", " ", "public", ".", "t", " ", "(", "id", " ",
       "integer", ")", ";">> >>

\* a table of the same name in another schema
\*   CREATE TABLE app.orders (
\*       id integer
\*   );
AppOrders ==
  << <<"CREATE", " ", "TABLE", " ", "app", ".", "orders", " ", "(">>,
     <<" ", " ", " ", " ", "id", " ", "integer">>,
     <<")", ";">> >>

\* a table declared in an excluded schema
\*   CREATE TABLE pg_catalog.orders (
\*       id integer
\*   );
CatalogOrders ==
  << <<"CREATE", " ", "TABLE", " ", "pg_catalog", ".", "orders", " ", "(">>,
     <<" ", " ", " ", " ", "id", " ", "integer">>,
     <<")", ";">> >>

\* a primary key added after the table
\*   ALTER TABLE ONLY public.orders
\*       ADD CONSTRAINT orders_pkey PRIMARY KEY (id);
AddPkOrders ==
  << <<"ALTER", " ", "TABLE", " ", "ONLY", " ", "public", ".", "orders">>,
     <<" ", " ", " ", " ", "ADD", " ", "CONSTRAINT", " ", "orders_pkey", " ",
       "PRIMARY", " ", "KEY", " ", "(", "id", ")", ";">> >>

\* a foreign key added after the table
\*   ALTER TABLE ONLY public.orders
\*       ADD CONSTRAINT orders_customer_fkey FOREIGN KEY (customer_id) REFERENCES public.customers(id) ON DELETE CASCADE;
AddFkOrders ==
  << <<"ALTER", " ", "TABLE", " ", "ONLY", " ", "public", ".", "orders">>,
     <<" ", " ", " ", " ", "ADD", " ", "CONSTRAINT", " ",
       "orders_customer_fkey", " ", "FOREIGN", " ", "KEY", " ", "(",
       "customer_id", ")", " ", "REFERENCES", " ", "public", ".",
       "customers", "(", "id", ")", " ", "ON", " ", "DELETE", " ", "CASCADE",
       ";">> >>

\* a primary key on the table of the other schema
\*   ALTER TABLE ONLY app.orders
\*       ADD CONSTRAINT orders_pkey PRIMARY KEY (id);
AddPkApp ==
  << <<"ALTER", " ", "TABLE", " ", "ONLY", " ", "app", ".", "orders">>,
     <<" ", " ", " ", " ", "ADD", " ", "CONSTRAINT", " ", "orders_pkey", " ",
       "PRIMARY", " ", "KEY", " ", "(", "id", ")", ";">> >>

\* an index
\*   CREATE INDEX orders_customer_idx ON public.orders USING btree (customer_id);
IndexOrders ==
  << <<"CREATE", " ", "INDEX", " ", "orders_customer_idx", " ", "ON", " ",
       "public", ".", "orders", " ", "USING", " ", "btree", " ", "(",
       "customer_id", ")", ";">> >>

\* a unique index on the same table
\*   CREATE UNIQUE INDEX orders_id_key ON public.orders USING btree (id);
UniqueIndexOrders ==
  << <<"CREATE", " ", "UNIQUE", " ", "INDEX", " ", "orders_id_key", " ",
       "ON", " ", "public", ".", "orders", " ", "USING", " ", "btree", " ",
       "(", "id", ")", ";">> >>

\* an index on another table
\*   CREATE INDEX t_b_idx ON public.t USING hash (b);
IndexT ==
  << <<"CREATE", " ", "INDEX", " ", "t_b_idx", " ", "ON", " ", "public", ".",
       "t", " ", "USING", " ", "hash", " ", "(", "b", ")", ";">> >>

\* a sequence with a data type, three numeric options and CYCLE
\*   create sequence s as smallint start with 5 increment by 2 maxvalue 100 cycle;
SeqScenario ==
  << <<"create", " ", "sequence", " ", "s", " ", "as", " ", "smallint", " ",
       "start", " ", "with", " ", "5", " ", "increment", " ", "by", " ", "2",
       " ", "maxvalue", " ", "100", " ", "cycle", ";">> >>

\* a sequence that starts at an explicit 0 and says NO CYCLE
\*   CREATE SEQUENCE public.z_seq
\*       START WITH 0
\*       MINVALUE 0
\*       NO CYCLE;
SeqZeroNoCycle ==
  << <<"CREATE", " ", "SEQUENCE", " ", "public", ".", "z_seq">>,
     <<" ", " ", " ", " ", "START", " ", "WITH", " ", "0">>,
     <<" ", " ", " ", " ", "MINVALUE", " ", "0">>,
     <<" ", " ", " ", " ", "NO", " ", "CYCLE", ";">> >>

\* a descending sequence, as pg_dump writes it
\*   CREATE SEQUENCE public.down_seq
\*       START WITH 100
\*       INCREMENT BY -1
\*       MINVALUE 1
\*       MAXVALUE 100
\*       CACHE 1;
SeqDescending ==
  << <<"CREATE", " ", "SEQUENCE", " ", "public", ".", "down_seq">>,
     <<" ", " ", " ", " ", "START", " ", "WITH", " ", "100">>,
     <<" ", " ", " ", " ", "INCREMENT", " ", "BY", " ", "-", "1">>,
     <<" ", " ", " ", " ", "MINVALUE", " ", "1">>,
     <<" ", " ", " ", " ", "MAXVALUE", " ", "100">>,
     <<" ", " ", " ", " ", "CACHE", " ", "1", ";">> >>

\* a sequence with a data type, as pg_dump writes it
\*   CREATE SEQUENCE public.i_seq
\*       AS integer
\*       START WITH 1
\*       INCREMENT BY 1
\*       NO MINVALUE
\*       NO MAXVALUE
\*       CACHE 1;
SeqAsInteger ==
  << <<"CREATE", " ", "SEQUENCE", " ", "public", ".", "i_seq">>,
     <<" ", " ", " ", " ", "AS", " ", "integer">>,
     <<" ", " ", " ", " ", "START", " ", "WITH", " ", "1">>,
     <<" ", " ", " ", " ", "INCREMENT", " ", "BY", " ", "1">>,
     <<" ", " ", " ", " ", "NO", " ", "MINVALUE">>,
     <<" ", " ", " ", " ", "NO", " ", "MAXVALUE">>,
     <<" ", " ", " ", " ", "CACHE", " ", "1", ";">> >>

\* types and a key whose parentheses hold commas
\*   CREATE TABLE public.n (
\*       a numeric(10,2) NOT NULL,
\*       b numeric(12,4),
\*       CONSTRAINT n_pkey PRIMARY KEY (a, b)
\*   );
NumericKeyTable ==
  << <<"CREATE", " ", "TABLE", " ", "public", ".", "n", " ", "(">>,
     <<" ", " ", " ", " ", "a", " ", "numeric", "(", "10", ",", "2", ")",
       " ", "NOT", " ", "NULL", ",">>,
     <<" ", " ", " ", " ", "b", " ", "numeric", "(", "12", ",", "4", ")",
       ",">>,
     <<" ", " ", " ", " ", "CONSTRAINT", " ", "n_pkey", " ", "PRIMARY", " ",
       "KEY", " ", "(", "a", ",", " ", "b", ")">>,
     <<")", ";">> >>

\* an enum type of three labels on one line
\*   create type public.status as enum ('a','b','c');
EnumStatus ==
  << <<"create", " ", "type", " ", "public", ".", "status", " ", "as", " ",
       "enum", " ", "(", "'", "a", "'", ",", "'", "b", "'", ",", "'", "c",
       "'", ")", ";">> >>

\* an enum type, as pg_dump writes it
\*   CREATE TYPE public.mood AS ENUM (
\*       'sad',
\*       'ok'
\*   );
EnumMood ==
  << <<"CREATE", " ", "TYPE", " ", "public", ".", "mood", " ", "AS", " ",
       "ENUM", " ", "(">>,
     <<" ", " ", " ", " ", "'", "sad", "'", ",">>,
     <<" ", " ", " ", " ", "'", "ok", "'">>,
     <<")", ";">> >>

\* an unqualified enum type
\*   CREATE TYPE color AS ENUM (
\*       'red'
\*   );
EnumUnqual ==
  << <<"CREATE", " ", "TYPE", " ", "color", " ", "AS", " ", "ENUM", " ", "(">>,
     <<" ", " ", " ", " ", "'", "red", "'">>,
     <<")", ";">> >>

\* an enum type with a label of two words
\*   CREATE TYPE public.spaced AS ENUM (
\*       'in progress',
\*       'done'
\*   );
EnumSpaced ==
  << <<"CREATE", " ", "TYPE", " ", "public", ".", "spaced", " ", "AS", " ",
       "ENUM", " ", "(">>,
     <<" ", " ", " ", " ", "'", "in", " ", "progress", "'", ",">>,
     <<" ", " ", " ", " ", "'", "done", "'">>,
     <<")", ";">> >>

\* an enum type with a label that holds a comma
\*   CREATE TYPE public.size AS ENUM (
\*       'small',
\*       'medium, large'
\*   );
EnumCommaLabel ==
  << <<"CREATE", " ", "TYPE", " ", "public", ".", "size", " ", "AS", " ",
       "ENUM", " ", "(">>,
     <<" ", " ", " ", " ", "'", "small", "'", ",">>,
     <<" ", " ", " ", " ", "'", "medium", ",", " ", "large", "'">>,
     <<")", ";">> >>

\* an enum type with no label
\*   CREATE TYPE public.none AS ENUM (
\*   );
EnumNone ==
  << <<"CREATE", " ", "TYPE", " ", "public", ".", "none", " ", "AS", " ",
       "ENUM", " ", "(">>,
     <<")", ";">> >>

\* a search path whose first entry is pg_catalog
\*   SET search_path = pg_catalog, sales;
SetPathCatalogFirst ==
  << <<"SET", " ", "search_path", " ", "=", " ", "pg_catalog", ",", " ",
       "sales", ";">> >>

\* a search path that holds only pg_catalog
\*   SET search_path = pg_catalog;
SetPathCatalog ==
  << <<"SET", " ", "search_path", " ", "=", " ", "pg_catalog", ";">> >>

\* a search path set with set_config
\*   SELECT pg_catalog.set_config('search_path', 'app, pg_catalog', false);
SelectPathApp ==
  << <<"SELECT", " ", "pg_catalog", ".", "set_config", "(", "'",
       "search_path", "'", ",", " ", "'", "app", ",", " ", "pg_catalog", "'",
       ",", " ", "false", ")", ";">> >>

\* an extension with no schema
\*   CREATE EXTENSION pg_trgm;
ExtPlain ==
  << <<"CREATE", " ", "EXTENSION", " ", "pg_trgm", ";">> >>

\* an index on an unqualified table
\*   CREATE INDEX t_idx ON t USING btree (id);
UnqualIndex ==
  << <<"CREATE", " ", "INDEX", " ", "t_idx", " ", "ON", " ", "t", " ",
       "USING", " ", "btree", " ", "(", "id", ")", ";">> >>

\* a rule on an unqualified table
\*   CREATE RULE r AS ON INSERT TO t DO INSTEAD NOTHING;
UnqualRule ==
  << <<"CREATE", " ", "RULE", " ", "r", " ", "AS", " ", "ON", " ", "INSERT",
       " ", "TO", " ", "t", " ", "DO", " ", "INSTEAD", " ", "NOTHING", ";">> >>

\* a constraint on an unqualified table
\*   ALTER TABLE ONLY t
\*       ADD CONSTRAINT t_pkey PRIMARY KEY (id);
UnqualAddCon ==
  << <<"ALTER", " ", "TABLE", " ", "ONLY", " ", "t">>,
     <<" ", " ", " ", " ", "ADD", " ", "CONSTRAINT", " ", "t_pkey", " ",
       "PRIMARY", " ", "KEY", " ", "(", "id", ")", ";">> >>

\* a rule
\*   CREATE RULE orders_log AS ON INSERT TO public.orders DO INSTEAD NOTHING;
RuleOrders ==
  << <<"CREATE", " ", "RULE", " ", "orders_log", " ", "AS", " ", "ON", " ",
       "INSERT", " ", "TO", " ", "public", ".", "orders", " ", "DO", " ",
       "INSTEAD", " ", "NOTHING", ";">> >>

\* a default whose string literal reads like another statement
\*   ALTER TABLE ONLY public.orders ALTER COLUMN customer_id SET DEFAULT 'create sequence x'::text;
SetDefaultLiteral ==
  << <<"ALTER", " ", "TABLE", " ", "ONLY", " ", "public", ".", "orders", " ",
       "ALTER", " ", "COLUMN", " ", "customer_id", " ", "SET", " ",
       "DEFAULT", " ", "'", "create", " ", "sequence", " ", "x", "'", ":",
       ":", "text", ";">> >>

\* the header of a dump of an older server
\*   -- Dumped from database version 14.9
\*   -- Dumped by pg_dump version 14.9
HeaderOlder ==
  << <<"-", "-", " ", "Dumped", " ", "from", " ", "database", " ", "version",
       " ", "14", ".", "9">>,
     <<"-", "-", " ", "Dumped", " ", "by", " ", "pg_dump", " ", "version",
       " ", "14", ".", "9">> >>

\* a header without a version line
\*   --
\*   -- PostgreSQL database dump
\*   --
HeaderPlain ==
  << <<"-", "-">>,
     <<"-", "-", " ", "PostgreSQL", " ", "database", " ", "dump">>,
     <<"-", "-">> >>

\* a deferred foreign key added after the table
\*   ALTER TABLE ONLY public.orders
\*       ADD CONSTRAINT orders_customer_fkey FOREIGN KEY (customer_id) REFERENCES public.customers(id) DEFERRABLE INITIALLY DEFERRED;
AddFkDeferred ==
  << <<"ALTER", " ", "TABLE", " ", "ONLY", " ", "public", ".", "orders">>,
     <<" ", " ", " ", " ", "ADD", " ", "CONSTRAINT", " ",
       "orders_customer_fkey", " ", "FOREIGN", " ", "KEY", " ", "(",
       "customer_id", ")", " ", "REFERENCES", " ", "public", ".",
       "customers", "(", "id", ")", " ", "DEFERRABLE", " ", "INITIALLY", " ",
       "DEFERRED", ";">> >>

\* the same deferred foreign key inside the table body
\*   CREATE TABLE public.orders (
\*       id integer NOT NULL,
\*       customer_id integer,
\*       CONSTRAINT orders_customer_fkey FOREIGN KEY (customer_id) REFERENCES public.customers(id) DEFERRABLE INITIALLY DEFERRED
\*   );
InlineFkDeferred ==
  << <<"CREATE", " ", "TABLE", " ", "public", ".", "orders", " ", "(">>,
     <<" ", " ", " ", " ", "id", " ", "integer", " ", "NOT", " ", "NULL",
       ",">>,
     <<" ", " ", " ", " ", "customer_id", " ", "integer", ",">>,
     <<" ", " ", " ", " ", "CONSTRAINT", " ", "orders_customer_fkey", " ",
       "FOREIGN", " ", "KEY", " ", "(", "customer_id", ")", " ",
       "REFERENCES", " ", "public", ".", "customers", "(", "id", ")", " ",
       "DEFERRABLE", " ", "INITIALLY", " ", "DEFERRED">>,
     <<")", ";">> >>

\* a deferrable unique constraint added after the table
\*   ALTER TABLE ONLY public.orders
\*       ADD CONSTRAINT orders_customer_key UNIQUE (customer_id) DEFERRABLE;
AddUqDeferrable ==
  << <<"ALTER", " ", "TABLE", " ", "ONLY", " ", "public", ".", "orders">>,
     <<" ", " ", " ", " ", "ADD", " ", "CONSTRAINT", " ",
       "orders_customer_key", " ", "UNIQUE", " ", "(", "customer_id", ")",
       " ", "DEFERRABLE", ";">> >>

\* the same deferrable unique constraint inside the table body
\*   CREATE TABLE public.orders (
\*       id integer NOT NULL,
\*       customer_id integer,
\*       CONSTRAINT orders_customer_key UNIQUE (customer_id) DEFERRABLE
\*   );
InlineUqDeferrable ==
  << <<"CREATE", " ", "TABLE", " ", "public", ".", "orders", " ", "(">>,
     <<" ", " ", " ", " ", "id", " ", "integer", " ", "NOT", " ", "NULL",
       ",">>,
     <<" ", " ", " ", " ", "customer_id", " ", "integer", ",">>,
     <<" ", " ", " ", " ", "CONSTRAINT", " ", "orders_customer_key", " ",
       "UNIQUE", " ", "(", "customer_id", ")", " ", "DEFERRABLE">>,
     <<")", ";">> >>

\* a primary key that says it is not deferrable
\*   ALTER TABLE ONLY public.orders
\*       ADD CONSTRAINT orders_pkey PRIMARY KEY (id) NOT DEFERRABLE;
AddPkNotDeferrable ==
  << <<"ALTER", " ", "TABLE", " ", "ONLY", " ", "public", ".", "orders">>,
     <<" ", " ", " ", " ", "ADD", " ", "CONSTRAINT", " ", "orders_pkey", " ",
       "PRIMARY", " ", "KEY", " ", "(", "id", ")", " ", "NOT", " ",
       "DEFERRABLE", ";">> >>

\* a deferrable foreign key that is checked immediately
\*   ALTER TABLE ONLY public.orders
\*       ADD CONSTRAINT orders_customer_fkey FOREIGN KEY (customer_id) REFERENCES public.customers(id) DEFERRABLE INITIALLY IMMEDIATE;
AddFkImmediate ==
  << <<"ALTER", " ", "TABLE", " ", "ONLY", " ", "public", ".", "orders">>,
     <<" ", " ", " ", " ", "ADD", " ", "CONSTRAINT", " ",
       "orders_customer_fkey", " ", "FOREIGN", " ", "KEY", " ", "(",
       "customer_id", ")", " ", "REFERENCES", " ", "public", ".",
       "customers", "(", "id", ")", " ", "DEFERRABLE", " ", "INITIALLY", " ",
       "IMMEDIATE", ";">> >>

\* a primary key in lower case
\*   alter table only public.orders
\*       add constraint orders_pkey primary key (id);
AddPkLower ==
  << <<"alter", " ", "table", " ", "only", " ", "public", ".", "orders">>,
     <<" ", " ", " ", " ", "add", " ", "constraint", " ", "orders_pkey", " ",
       "primary", " ", "key", " ", "(", "id", ")", ";">> >>

\* a primary key with two spaces in the kind
\*   ALTER TABLE ONLY public.orders
\*       ADD CONSTRAINT orders_pkey PRIMARY  KEY (id);
AddPkTwoSpaces ==
  << <<"ALTER", " ", "TABLE", " ", "ONLY", " ", "public", ".", "orders">>,
     <<" ", " ", " ", " ", "ADD", " ", "CONSTRAINT", " ", "orders_pkey", " ",
       "PRIMARY", " ", " ", "KEY", " ", "(", "id", ")", ";">> >>

\* a primary key with three spaces in the kind
\*   ALTER TABLE ONLY public.orders
\*       ADD CONSTRAINT orders_pkey PRIMARY   KEY (id);
AddPkThreeSpaces ==
  << <<"ALTER", " ", "TABLE", " ", "ONLY", " ", "public", ".", "orders">>,
     <<" ", " ", " ", " ", "ADD", " ", "CONSTRAINT", " ", "orders_pkey", " ",
       "PRIMARY", " ", " ", " ", "KEY", " ", "(", "id", ")", ";">> >>

\* a foreign key with a tab in the kind
\*   ALTER TABLE ONLY public.orders
\*       ADD CONSTRAINT orders_customer_fkey FOREIGN	KEY (customer_id) REFERENCES public.customers(id);
AddFkTab ==
  << <<"ALTER", " ", "TABLE", " ", "ONLY", " ", "public", ".", "orders">>,
     <<" ", " ", " ", " ", "ADD", " ", "CONSTRAINT", " ",
       "orders_customer_fkey", " ", "FOREIGN", "\t", "KEY", " ", "(",
       "customer_id", ")", " ", "REFERENCES", " ", "public", ".",
       "customers", "(", "id", ")", ";">> >>

\* a primary key with a line break in the kind
\*   ALTER TABLE ONLY public.orders
\*       ADD CONSTRAINT orders_pkey PRIMARY
\*       KEY (id);
AddPkNewline ==
  << <<"ALTER", " ", "TABLE", " ", "ONLY", " ", "public", ".", "orders">>,
     <<" ", " ", " ", " ", "ADD", " ", "CONSTRAINT", " ", "orders_pkey", " ",
       "PRIMARY">>,
     <<" ", " ", " ", " ", "KEY", " ", "(", "id", ")", ";">> >>

\* a unique constraint added after the table
\*   ALTER TABLE ONLY public.orders
\*       ADD CONSTRAINT orders_customer_key UNIQUE (customer_id);
AddUqOrders ==
  << <<"ALTER", " ", "TABLE", " ", "ONLY", " ", "public", ".", "orders">>,
     <<" ", " ", " ", " ", "ADD", " ", "CONSTRAINT", " ",
       "orders_customer_key", " ", "UNIQUE", " ", "(", "customer_id", ")",
       ";">> >>

\* a check constraint added after the table
\*   ALTER TABLE public.orders
\*       ADD CONSTRAINT orders_id_check CHECK ((id > 0));
AddCheckOrders ==
  << <<"ALTER", " ", "TABLE", " ", "public", ".", "orders">>,
     <<" ", " ", " ", " ", "ADD", " ", "CONSTRAINT", " ", "orders_id_check",
       " ", "CHECK", " ", "(", "(", "id", " ", ">", " ", "0", ")", ")", ";">> >>

\* a function whose body creates an extension
\*   CREATE FUNCTION public.mkext() RETURNS void
\*       LANGUAGE plpgsql
\*       AS $$
\*   BEGIN
\*     CREATE EXTENSION IF NOT EXISTS pg_trgm;
\*   END;
\*   $$;
FnCreatesExtension ==
  << <<"CREATE", " ", "FUNCTION", " ", "public", ".", "mkext", "(", ")", " ",
       "RETURNS", " ", "void">>,
     <<" ", " ", " ", " ", "LANGUAGE", " ", "plpgsql">>,
     <<" ", " ", " ", " ", "AS", " ", "$", "$">>,
     <<"BEGIN">>,
     <<" ", " ", "CREATE", " ", "EXTENSION", " ", "IF", " ", "NOT", " ",
       "EXISTS", " ", "pg_trgm", ";">>,
     <<"END", ";">>,
     <<"$", "$", ";">> >>

\* a function whose body creates a sequence
\*   CREATE FUNCTION public.mkseq() RETURNS void
\*       LANGUAGE plpgsql
\*       AS $$
\*   BEGIN
\*     CREATE SEQUENCE public.s;
\*   END;
\*   $$;
FnCreatesSequence ==
  << <<"CREATE", " ", "FUNCTION", " ", "public", ".", "mkseq", "(", ")", " ",
       "RETURNS", " ", "void">>,
     <<" ", " ", " ", " ", "LANGUAGE", " ", "plpgsql">>,
     <<" ", " ", " ", " ", "AS", " ", "$", "$">>,
     <<"BEGIN">>,
     <<" ", " ", "CREATE", " ", "SEQUENCE", " ", "public", ".", "s", ";">>,
     <<"END", ";">>,
     <<"$", "$", ";">> >>

\* a function whose body adds a constraint
\*   CREATE FUNCTION public.mkpk() RETURNS void
\*       LANGUAGE plpgsql
\*       AS $$
\*   BEGIN
\*     ALTER TABLE public.orders ADD CONSTRAINT orders_pkey PRIMARY KEY (id);
\*   END;
\*   $$;
FnAddsConstraint ==
  << <<"CREATE", " ", "FUNCTION", " ", "public", ".", "mkpk", "(", ")", " ",
       "RETURNS", " ", "void">>,
     <<" ", " ", " ", " ", "LANGUAGE", " ", "plpgsql">>,
     <<" ", " ", " ", " ", "AS", " ", "$", "$">>,
     <<"BEGIN">>,
     <<" ", " ", "ALTER", " ", "TABLE", " ", "public", ".", "orders", " ",
       "ADD", " ", "CONSTRAINT", " ", "orders_pkey", " ", "PRIMARY", " ",
       "KEY", " ", "(", "id", ")", ";">>,
     <<"END", ";">>,
     <<"$", "$", ";">> >>

\* a function whose body creates an index
\*   CREATE FUNCTION public.mkidx() RETURNS void
\*       LANGUAGE plpgsql
\*       AS $$
\*   BEGIN
\*     CREATE INDEX orders_customer_idx ON public.orders USING btree (customer_id);
\*   END;
\*   $$;
FnCreatesIndex ==
  << <<"CREATE", " ", "FUNCTION", " ", "public", ".", "mkidx", "(", ")", " ",
       "RETURNS", " ", "void">>,
     <<" ", " ", " ", " ", "LANGUAGE", " ", "plpgsql">>,
     <<" ", " ", " ", " ", "AS", " ", "$", "$">>,
     <<"BEGIN">>,
     <<" ", " ", "CREATE", " ", "INDEX", " ", "orders_customer_idx", " ",
       "ON", " ", "public", ".", "orders", " ", "USING", " ", "btree", " ",
       "(", "customer_id", ")", ";">>,
     <<"END", ";">>,
     <<"$", "$", ";">> >>

\* a table with an identity column by default
\*   CREATE TABLE public.t (
\*       id integer GENERATED BY DEFAULT AS IDENTITY,
\*       b text
\*   );
IdentityByDefault ==
  << <<"CREATE", " ", "TABLE", " ", "public", ".", "t", " ", "(">>,
     <<" ", " ", " ", " ", "id", " ", "integer", " ", "GENERATED", " ", "BY",
       " ", "DEFAULT", " ", "AS", " ", "IDENTITY", ",">>,
     <<" ", " ", " ", " ", "b", " ", "text">>,
     <<")", ";">> >>

\* a table with an identity column always
\*   CREATE TABLE public.t (
\*       id bigint GENERATED ALWAYS AS IDENTITY,
\*       b text
\*   );
IdentityAlways ==
  << <<"CREATE", " ", "TABLE", " ", "public", ".", "t", " ", "(">>,
     <<" ", " ", " ", " ", "id", " ", "bigint", " ", "GENERATED", " ",
       "ALWAYS", " ", "AS", " ", "IDENTITY", ",">>,
     <<" ", " ", " ", " ", "b", " ", "text">>,
     <<")", ";">> >>

\* a table with an identity column that is not null
\*   CREATE TABLE public.t (
\*       id integer NOT NULL GENERATED BY DEFAULT AS IDENTITY,
\*       b text
\*   );
IdentityNotNull ==
  << <<"CREATE", " ", "TABLE", " ", "public", ".", "t", " ", "(">>,
     <<" ", " ", " ", " ", "id", " ", "integer", " ", "NOT", " ", "NULL",
       " ", "GENERATED", " ", "BY", " ", "DEFAULT", " ", "AS", " ",
       "IDENTITY", ",">>,
     <<" ", " ", " ", " ", "b", " ", "text">>,
     <<")", ";">> >>

\* a table with a column with a default
\*   CREATE TABLE public.t (
\*       id integer DEFAULT 7 NOT NULL,
\*       b text
\*   );
DefaultNotNull ==
  << <<"CREATE", " ", "TABLE", " ", "public", ".", "t", " ", "(">>,
     <<" ", " ", " ", " ", "id", " ", "integer", " ", "DEFAULT", " ", "7",
       " ", "NOT", " ", "NULL", ",">>,
     <<" ", " ", " ", " ", "b", " ", "text">>,
     <<")", ";">> >>

\* a table with a generated column
\*   CREATE TABLE public.t (
\*       id integer GENERATED ALWAYS AS (a + 1) STORED,
\*       b text
\*   );
GeneratedStored ==
  << <<"CREATE", " ", "TABLE", " ", "public", ".", "t", " ", "(">>,
     <<" ", " ", " ", " ", "id", " ", "integer", " ", "GENERATED", " ",
       "ALWAYS", " ", "AS", " ", "(", "a", " ", "+", " ", "1", ")", " ",
       "STORED", ",">>,
     <<" ", " ", " ", " ", "b", " ", "text">>,
     <<")", ";">> >>

\* the lines of every chunk, by name
Chunk ==
  ("HeaderComment" :> HeaderComment) @@ ("SetPath" :> SetPath) @@
  ("SelectPath" :> SelectPath) @@ ("OrdersTable" :> OrdersTable) @@
  ("OrdersSetDefault" :> OrdersSetDefault) @@ ("PlainTable" :> PlainTable) @@
  ("KeywordColTable" :> KeywordColTable) @@
  ("CommaDefaultTable" :> CommaDefaultTable) @@
  ("InlineKeysTable" :> InlineKeysTable) @@ ("CheckTable" :> CheckTable) @@
  ("ExcludeTable" :> ExcludeTable) @@ ("FnEmptyTag" :> FnEmptyTag) @@
  ("FnNamedTag" :> FnNamedTag) @@ ("FnBodySetPath" :> FnBodySetPath) @@
  ("FnDollarName" :> FnDollarName) @@
  ("FnDefaultQuoted" :> FnDefaultQuoted) @@
  ("FnCreatesTable" :> FnCreatesTable) @@ ("DoOneLine" :> DoOneLine) @@
  ("PlainSeq" :> PlainSeq) @@ ("Unterminated" :> Unterminated) @@
  ("OrdersPlain" :> OrdersPlain) @@ ("CustomersTable" :> CustomersTable) @@
  ("OrdersAddIdentity" :> OrdersAddIdentity) @@ ("OrdersSeq" :> OrdersSeq) @@
  ("OrdersSeqOwned" :> OrdersSeqOwned) @@
  ("NoColSetDefault" :> NoColSetDefault) @@
  ("ExtPgCatalog" :> ExtPgCatalog) @@ ("ExtSpock" :> ExtSpock) @@
  ("ExtPublic" :> ExtPublic) @@ ("TableSpock" :> TableSpock) @@
  ("SetPathSpock" :> SetPathSpock) @@ ("UnqualTable" :> UnqualTable) @@
  ("AddConPgToast" :> AddConPgToast) @@ ("IndexInfo" :> IndexInfo) @@
  ("SeqSpock" :> SeqSpock) @@ ("EnumCatalog" :> EnumCatalog) @@
  ("RuleSpock" :> RuleSpock) @@ ("BadColumn" :> BadColumn) @@
  ("Unbalanced" :> Unbalanced) @@ ("BigSeq" :> BigSeq) @@
  ("FnUnclosed" :> FnUnclosed) @@ ("Garbage" :> Garbage) @@
  ("EmptyCols" :> EmptyCols) @@ ("GoodTable" :> GoodTable) @@
  ("AppOrders" :> AppOrders) @@ ("CatalogOrders" :> CatalogOrders) @@
  ("AddPkOrders" :> AddPkOrders) @@ ("AddFkOrders" :> AddFkOrders) @@
  ("AddPkApp" :> AddPkApp) @@ ("IndexOrders" :> IndexOrders) @@
  ("UniqueIndexOrders" :> UniqueIndexOrders) @@ ("IndexT" :> IndexT) @@
  ("SeqScenario" :> SeqScenario) @@ ("SeqZeroNoCycle" :> SeqZeroNoCycle) @@
  ("SeqDescending" :> SeqDescending) @@ ("SeqAsInteger" :> SeqAsInteger) @@
  ("NumericKeyTable" :> NumericKeyTable) @@ ("EnumStatus" :> EnumStatus) @@
  ("EnumMood" :> EnumMood) @@ ("EnumUnqual" :> EnumUnqual) @@
  ("EnumSpaced" :> EnumSpaced) @@ ("EnumCommaLabel" :> EnumCommaLabel) @@
  ("EnumNone" :> EnumNone) @@
  ("SetPathCatalogFirst" :> SetPathCatalogFirst) @@
  ("SetPathCatalog" :> SetPathCatalog) @@
  ("SelectPathApp" :> SelectPathApp) @@ ("ExtPlain" :> ExtPlain) @@
  ("UnqualIndex" :> UnqualIndex) @@ ("UnqualRule" :> UnqualRule) @@
  ("UnqualAddCon" :> UnqualAddCon) @@ ("RuleOrders" :> RuleOrders) @@
  ("SetDefaultLiteral" :> SetDefaultLiteral) @@
  ("HeaderOlder" :> HeaderOlder) @@ ("HeaderPlain" :> HeaderPlain) @@
  ("AddFkDeferred" :> AddFkDeferred) @@
  ("InlineFkDeferred" :> InlineFkDeferred) @@
  ("AddUqDeferrable" :> AddUqDeferrable) @@
  ("InlineUqDeferrable" :> InlineUqDeferrable) @@
  ("AddPkNotDeferrable" :> AddPkNotDeferrable) @@
  ("AddFkImmediate" :> AddFkImmediate) @@ ("AddPkLower" :> AddPkLower) @@
  ("AddPkTwoSpaces" :> AddPkTwoSpaces) @@
  ("AddPkThreeSpaces" :> AddPkThreeSpaces) @@ ("AddFkTab" :> AddFkTab) @@
  ("AddPkNewline" :> AddPkNewline) @@ ("AddUqOrders" :> AddUqOrders) @@
  ("AddCheckOrders" :> AddCheckOrders) @@
  ("FnCreatesExtension" :> FnCreatesExtension) @@
  ("FnCreatesSequence" :> FnCreatesSequence) @@
  ("FnAddsConstraint" :> FnAddsConstraint) @@
  ("FnCreatesIndex" :> FnCreatesIndex) @@
  ("IdentityByDefault" :> IdentityByDefault) @@
  ("IdentityAlways" :> IdentityAlways) @@
  ("IdentityNotNull" :> IdentityNotNull) @@
  ("DefaultNotNull" :> DefaultNotNull) @@
  ("GeneratedStored" :> GeneratedStored)

\* the chunks of the files about table bodies
TableChunks ==
  {"OrdersTable", "OrdersSetDefault", "PlainTable", "KeywordColTable",
   "CommaDefaultTable", "InlineKeysTable", "CheckTable", "ExcludeTable"}

\* the chunks of the files about statement segmentation
SegmentChunks ==
  {"HeaderComment", "SetPath", "FnEmptyTag", "FnNamedTag", "FnBodySetPath",
   "FnDollarName", "FnDefaultQuoted", "DoOneLine", "PlainSeq", "Unterminated"}

\* the chunks of the files about statements that amend earlier ones
BackfillChunks ==
  {"OrdersPlain", "CustomersTable", "OrdersSetDefault", "OrdersAddIdentity",
   "OrdersSeq", "OrdersSeqOwned", "NoColSetDefault"}

\* the chunks of the files about excluded schemas
ExcludedChunks ==
  {"ExtPgCatalog", "ExtSpock", "ExtPublic", "TableSpock", "SetPathSpock",
   "UnqualTable", "AddConPgToast", "IndexInfo", "SeqSpock", "EnumCatalog",
   "RuleSpock"}

\* the chunks of the files about malformed statements
MalformedChunks ==
  {"BadColumn", "Unbalanced", "BigSeq", "FnUnclosed", "Garbage", "EmptyCols",
   "GoodTable"}

\* the chunks of the files the accessors are tried on
LookupChunks ==
  {"OrdersPlain", "AppOrders", "CatalogOrders", "FnCreatesTable",
   "AddPkOrders", "AddFkOrders", "AddPkApp", "IndexOrders",
   "UniqueIndexOrders", "IndexT"}

\* the chunks of the files about table bodies with parentheses and commas
BodyChunks ==
  {"PlainTable", "NumericKeyTable", "InlineKeysTable", "CheckTable",
   "CommaDefaultTable", "OrdersTable"}

\* the chunks of the files about enum types
EnumChunks ==
  {"EnumStatus", "EnumMood", "EnumUnqual", "EnumSpaced", "EnumCommaLabel",
   "EnumNone", "EnumCatalog", "SetPath"}

\* the chunks of the files about the search path and unqualified names
PathChunks ==
  {"SetPath", "SetPathCatalogFirst", "SetPathCatalog", "SelectPath",
   "SelectPathApp", "UnqualTable", "PlainSeq", "EnumUnqual", "ExtPlain",
   "UnqualIndex", "UnqualRule", "UnqualAddCon", "AppOrders", "FnBodySetPath"}

\* the chunks of the files with a statement of each shape
ShapeChunks ==
  {"ExtPublic", "EnumMood", "OrdersSeq", "OrdersPlain", "AddPkOrders",
   "IndexOrders", "OrdersSetDefault", "OrdersAddIdentity", "OrdersSeqOwned",
   "RuleOrders", "Garbage", "PlainSeq", "SetDefaultLiteral"}

\* the chunks of the files about sequences
SequenceChunks ==
  {"SeqScenario", "SeqZeroNoCycle", "SeqDescending", "SeqAsInteger",
   "OrdersSeq", "PlainSeq", "BigSeq", "OrdersSeqOwned"}

\* the chunks of the files about the version line of the header
VersionChunks ==
  {"HeaderComment", "HeaderOlder", "HeaderPlain", "SetPath", "PlainSeq"}

\* the chunks of the files about deferrable constraints
DeferChunks ==
  {"AddFkDeferred", "InlineFkDeferred", "AddUqDeferrable",
   "InlineUqDeferrable", "AddPkNotDeferrable", "AddFkImmediate",
   "AddPkOrders"}

\* the chunks of the files about the kinds of constraints
KindChunks ==
  {"AddPkOrders", "AddPkLower", "AddPkTwoSpaces", "AddPkThreeSpaces",
   "AddFkTab", "AddPkNewline", "AddUqOrders", "AddCheckOrders", "AddFkOrders",
   "InlineKeysTable"}

\* the chunks of the files about statements that embed other statements
EmbeddedChunks ==
  {"FnCreatesTable", "FnCreatesExtension", "FnCreatesSequence",
   "FnAddsConstraint", "FnCreatesIndex", "FnEmptyTag", "OrdersPlain"}

\* the chunks of the files about the attributes of a column
IdentityChunks ==
  {"IdentityByDefault", "IdentityAlways", "IdentityNotNull", "DefaultNotNull",
   "GeneratedStored"}

\* the chunks of the files that are analyzed
AnalyzeChunks ==
  {"HeaderOlder", "PlainSeq"}

\* the chunks of the files that are parsed twice
TwiceChunks ==
  {"HeaderComment", "SetPath", "OrdersPlain", "OrdersSetDefault",
   "FnEmptyTag", "PlainSeq"}
\*CORPUS-END

\* the most chunks in an input file
MaxChunks == 2

\* the most calls of ParseDump on one file
MaxRuns == 2

RECURSIVE ChunkSeqs(_, _)
\* the sequences of at most n chunk names from the set names
ChunkSeqs(names, n) ==
  IF n = 0 THEN {<<>>}
  ELSE LET S == ChunkSeqs(names, n - 1)
       IN  S \cup {Append(c, x) : c \in S, x \in names}

RECURSIVE LinesOf(_)
\* the lines of a file made of the named chunks
LinesOf(chunks) ==
  IF chunks = <<>> THEN <<>> ELSE Chunk[Head(chunks)] \o LinesOf(Tail(chunks))

\* the files over a set of chunk names: one that cannot be read, and every
\* readable one of at most MaxChunks chunks; lines is the text of the file
\* split at "\n"
Files(names) ==
  {[readable |-> FALSE, chunks |-> <<>>, lines |-> <<>>]}
    \cup {[readable |-> TRUE, chunks |-> c, lines |-> LinesOf(c)] :
             c \in ChunkSeqs(names, MaxChunks)}

\* -------------------------------------------------------------- state

VARIABLES
  file,           \* the input: whether os.ReadFile succeeds, its chunks and lines
  pc,             \* where ParseDump is: start, split, process, done, failed, panicked
  li,             \* splitStatements: the index of the next line
  buf,            \* splitStatements: the lines of the statement in progress
  inDollarQuote,  \* splitStatements: inside a dollar-quoted string
  dollarTag,      \* splitStatements: the tag that opened it
  searchPath,     \* splitStatements: the current schema
  results,        \* the statements found: [stmt, searchPath]
  si,             \* ParseDump: the index of the next statement to process
  schema,         \* the ParsedSchema under construction / returned
  ret,            \* the value the last accessor call returned
  prev,           \* the models earlier calls of ParseDump on the file returned
  registry,       \* package check: the registered checks
  analysis        \* RunAnalyze: where the call is, and its locals

vars == <<file, pc, li, buf, inDollarQuote, dollarTag, searchPath, results,
          si, schema, ret, prev, registry, analysis>>

\* lines := strings.Split(text, "\n")
lines == file.lines

\* no accessor has been called
NoRet == [op |-> "none"]

\* the state before ParseDump is called on one of the files over names
\* RunAnalyze has not been called
NoAnalysis ==
  [pc |-> "none", categories |-> <<>>, checksToRun |-> <<>>, i |-> 1,
   outcomes |-> <<>>, report |-> NewReport(NewParsedSchema), err |-> "nil"]

InitOver(names) ==
  /\ file \in Files(names)
  /\ pc = "start"
  /\ li = 1
  /\ buf = <<>>
  /\ inDollarQuote = FALSE
  /\ dollarTag = <<>>
  /\ searchPath = "public"
  /\ results = <<>>
  /\ si = 1
  /\ schema = NewParsedSchema
  /\ ret = NoRet
  /\ prev = <<>>
  /\ registry = <<>>
  /\ analysis = NoAnalysis

\* ReadFile with a bug: the schema and the search path of the call before
\* are kept
ReadFileKeepingState ==
  /\ pc = "start"
  /\ pc' = IF file.readable THEN "split" ELSE "failed"
  /\ results' = <<>>
  /\ buf' = <<>>
  /\ inDollarQuote' = FALSE
  /\ dollarTag' = <<>>
  /\ li' = 1
  /\ si' = 1
  /\ UNCHANGED <<file, schema, searchPath, ret, prev, registry, analysis>>

\* ParseDump up to the loop of splitStatements: os.ReadFile; on an error
\* ParseDump returns (nil, err); otherwise it makes the schema, and
\* splitStatements starts with its locals at their declared values
ReadFile ==
  /\ pc = "start"
  /\ pc' = IF file.readable THEN "split" ELSE "failed"
  /\ schema' = NewParsedSchema
  /\ searchPath' = "public"
  /\ results' = <<>>
  /\ buf' = <<>>
  /\ inDollarQuote' = FALSE
  /\ dollarTag' = <<>>
  /\ li' = 1
  /\ si' = 1
  /\ UNCHANGED <<file, ret, prev, registry, analysis>>

\* the loop body of splitStatements from buf = append(buf, line) on, with
\* the search path sp and the dollar-quote state dq after the line
SplitTracked(line, stripped, sp, dq) ==
  /\ searchPath' = sp
  /\ inDollarQuote' = dq.inDollarQuote
  /\ dollarTag' = dq.dollarTag
  /\ IF ~dq.inDollarQuote /\ HasSuffix(stripped, <<";">>)
     THEN /\ results' = Append(results, [stmt |-> Join(Append(buf, line), "\n"),
                                         searchPath |-> sp])
          /\ buf' = <<>>
     ELSE /\ buf' = Append(buf, line)
          /\ results' = results
  /\ UNCHANGED schema

\* the loop body of splitStatements on a line
SplitOn(line, stripped) ==
  IF IsCommentLine(line)
  THEN /\ schema' = [schema EXCEPT !.PgVersion =
                       PgVersionAfter(stripped, @,
                         FindStringSubmatchIndex(rePgVersion, stripped))]
       /\ UNCHANGED <<buf, inDollarQuote, dollarTag, searchPath, results>>
  ELSE IF IsBlankLine(line)
  THEN UNCHANGED <<schema, buf, inDollarQuote, dollarTag, searchPath, results>>
  ELSE SplitTracked(line, stripped, TrackSearchPath(stripped, searchPath),
                    TrackDollarQuote(stripped, inDollarQuote, dollarTag))

\* one iteration of the loop of splitStatements over the lines
SplitLine ==
  /\ pc = "split"
  /\ li <= Len(lines)
  /\ SplitOn(lines[li], TrimSpace(lines[li]))
  /\ li' = li + 1
  /\ UNCHANGED <<file, pc, si, ret, prev, registry, analysis>>

\* the end of splitStatements: flush any remaining buffer, and return
SplitFlush ==
  /\ pc = "split"
  /\ li > Len(lines)
  /\ results' = IF Len(buf) > 0
                THEN Append(results, [stmt |-> Join(buf, "\n"),
                                      searchPath |-> searchPath])
                ELSE results
  /\ buf' = <<>>
  /\ pc' = "process"
  /\ UNCHANGED <<file, li, inDollarQuote, dollarTag, searchPath, si, schema,
                 ret, prev, registry, analysis>>

\* one iteration of the loop of ParseDump: processStatement on the next
\* statement; a panic in it ends the run
ProcessStatement ==
  /\ pc = "process"
  /\ si <= Len(results)
  /\ LET r == processStatement(results[si].stmt, results[si].searchPath, schema)
     IN  /\ schema' = r.schema
         /\ pc' = IF r.panic THEN "panicked" ELSE "process"
  /\ si' = si + 1
  /\ UNCHANGED <<file, li, buf, inDollarQuote, dollarTag, searchPath, results,
                 ret, prev, registry, analysis>>

\* ParseDump, the last line: return schema, nil
ParseDumpReturn ==
  /\ pc = "process"
  /\ si > Len(results)
  /\ pc' = "done"
  /\ UNCHANGED <<file, li, buf, inDollarQuote, dollarTag, searchPath, results,
                 si, schema, ret, prev, registry, analysis>>

\* the arguments the accessors are called with
LookupSchemas == {"public", "app", "pg_catalog"}
LookupTables == {"orders", "t", "nosuch"}
LookupKinds == {"", "PRIMARY KEY", "FOREIGN KEY"}

\* a call of schema.GetTable on the returned model
CallGetTable ==
  /\ pc = "done"
  /\ \E s \in LookupSchemas, n \in LookupTables :
       ret' = [op |-> "GetTable", schema |-> s, name |-> n,
               value |-> GetTable(schema, s, n)]
  /\ UNCHANGED <<file, pc, li, buf, inDollarQuote, dollarTag, searchPath,
                 results, si, schema, prev, registry, analysis>>

\* a call of schema.GetConstraintsForTable on the returned model
CallGetConstraintsForTable ==
  /\ pc = "done"
  /\ \E s \in LookupSchemas, n \in LookupTables, k \in LookupKinds :
       ret' = [op |-> "GetConstraintsForTable", schema |-> s, name |-> n,
               kind |-> k, value |-> GetConstraintsForTable(schema, s, n, k)]
  /\ UNCHANGED <<file, pc, li, buf, inDollarQuote, dollarTag, searchPath,
                 results, si, schema, prev, registry, analysis>>

\* a call of schema.GetIndexesForTable on the returned model
CallGetIndexesForTable ==
  /\ pc = "done"
  /\ \E s \in LookupSchemas, n \in LookupTables :
       ret' = [op |-> "GetIndexesForTable", schema |-> s, name |-> n,
               value |-> GetIndexesForTable(schema, s, n)]
  /\ UNCHANGED <<file, pc, li, buf, inDollarQuote, dollarTag, searchPath,
                 results, si, schema, prev, registry, analysis>>

\* a second call of ParseDump on the same file, the model of the first call
\* kept by the caller
ParseAgain ==
  /\ pc = "done"
  /\ Len(prev) < MaxRuns - 1
  /\ prev' = Append(prev, schema)
  /\ pc' = "start"
  /\ ret' = NoRet
  /\ UNCHANGED <<file, li, buf, inDollarQuote, dollarTag, searchPath, results,
                 si, schema, registry, analysis>>

\* the checks that are registered, and the arguments GetChecks is called with
Checks ==
  {[Name |-> "spock_gucs", Category |-> "config", Mode |-> "audit"],
   [Name |-> "any_check", Category |-> "config", Mode |-> "both"],
   [Name |-> "rules", Category |-> "schema", Mode |-> "scan"],
   [Name |-> "rules", Category |-> "schema", Mode |-> "audit"]}
CheckModes == {"", "scan", "audit"}
CheckCategories ==
  {<<>>, <<"schema">>, <<"schema", "config">>, <<"nonexistent">>}
MaxChecks == 3

\* Register adds a check to the global registry.
Register ==
  /\ Len(registry) < MaxChecks
  /\ \E c \in Checks : registry' = Append(registry, c)
  /\ UNCHANGED <<file, pc, li, buf, inDollarQuote, dollarTag, searchPath,
                 results, si, schema, ret, prev, analysis>>

\* a call of GetChecks; sort.Slice may leave equal checks in any order
CallGetChecks ==
  /\ \E mode \in CheckModes, categories \in CheckCategories :
       \E value \in GetChecks(registry, mode, categories) :
         ret' = [op |-> "GetChecks", mode |-> mode, categories |-> categories,
                 value |-> value]
  /\ UNCHANGED <<file, pc, li, buf, inDollarQuote, dollarTag, searchPath,
                 results, si, schema, prev, registry, analysis>>

\* the lists of categories RunAnalyze is called with
AnalyzeCategories ==
  {<<>>, <<"schema">>, <<"sequences", "config">>, <<"nonexistent">>}

\* at most this many calls of check functions of one call of RunAnalyze
\* return findings or panic
MaxEventful == 1

\* the number of calls so far that returned findings or panicked
Eventful(outcomes) ==
  Cardinality({k \in DOMAIN outcomes :
                 outcomes[k].panic \/ outcomes[k].findings # <<>>})

\* RunAnalyze up to the loop over checksToRun, on the model that ParseDump
\* returned: the category filter, the report, the checks to run
CallRunAnalyze ==
  /\ pc = "done"
  /\ analysis.pc = "none"
  /\ \E categories \in AnalyzeCategories :
       analysis' = [pc          |-> "checks",
                    categories  |-> categories,
                    checksToRun |-> ChecksToRun(categories),
                    i           |-> 1,
                    outcomes    |-> <<>>,
                    report      |-> NewReport(schema),
                    err         |-> "nil"]
  /\ UNCHANGED <<file, pc, li, buf, inDollarQuote, dollarTag, searchPath,
                 results, si, schema, ret, prev, registry>>

\* RunCheck without the deferred recover: a panic of the check function ends
\* the call of RunAnalyze
RunCheckWithoutRecover ==
  /\ analysis.pc = "checks"
  /\ analysis.i <= Len(analysis.checksToRun)
  /\ \E o \in CheckOutcomes :
       /\ o = [panic |-> FALSE, findings |-> <<>>, value |-> ""]
            \/ Eventful(analysis.outcomes) < MaxEventful
       /\ analysis' =
            IF o.panic
            THEN [analysis EXCEPT !.outcomes = Append(@, o), !.pc = "panicked"]
            ELSE [analysis EXCEPT
                    !.report.Results =
                       Append(@, CheckResult(analysis.checksToRun[analysis.i], o)),
                    !.outcomes = Append(@, o),
                    !.i = @ + 1]
  /\ UNCHANGED <<file, pc, li, buf, inDollarQuote, dollarTag, searchPath,
                 results, si, schema, ret, prev, registry>>

\* one iteration of the loop over checksToRun: the check function is called
\* with panic recovery, and the result is appended
RunCheck ==
  /\ analysis.pc = "checks"
  /\ analysis.i <= Len(analysis.checksToRun)
  /\ \E o \in CheckOutcomes :
       /\ o = [panic |-> FALSE, findings |-> <<>>, value |-> ""]
            \/ Eventful(analysis.outcomes) < MaxEventful
       /\ analysis' =
            [analysis EXCEPT
               !.report.Results =
                  Append(@, CheckResult(analysis.checksToRun[analysis.i], o)),
               !.outcomes = Append(@, o),
               !.i = @ + 1]
  /\ UNCHANGED <<file, pc, li, buf, inDollarQuote, dollarTag, searchPath,
                 results, si, schema, ret, prev, registry>>

\* the end of RunAnalyze: add skipped checks, return report, nil
RunAnalyzeReturn ==
  /\ analysis.pc = "checks"
  /\ analysis.i > Len(analysis.checksToRun)
  /\ analysis' =
       [analysis EXCEPT
          !.report.Results = @ \o SkippedResults(analysis.categories, 1),
          !.pc = "returned"]
  /\ UNCHANGED <<file, pc, li, buf, inDollarQuote, dollarTag, searchPath,
                 results, si, schema, ret, prev, registry>>

\* the atoms and the greatest length of the texts extractParenContent is
\* called with
ParenAtoms == {"(", ")", ",", "a"}
MaxParenLen == 5
ParenTexts == UNION {[1..n -> ParenAtoms] : n \in 0..MaxParenLen}

\* the body of a statement and its parts: body := extractParenContent(stmt)
\* and parts := splitBodyParts(body); one call in a behaviour
CallExtractParenContent ==
  /\ ret = NoRet
  /\ \E text \in ParenTexts :
       ret' = [op |-> "extractParenContent", text |-> text,
               value |-> extractParenContent(text),
               parts |-> splitBodyParts(extractParenContent(text))]
  /\ UNCHANGED <<file, pc, li, buf, inDollarQuote, dollarTag, searchPath,
                 results, si, schema, prev, registry, analysis>>

Next ==
  \/ ReadFile
  \/ SplitLine
  \/ SplitFlush
  \/ ProcessStatement
  \/ ParseDumpReturn
  \/ CallGetTable
  \/ CallGetConstraintsForTable
  \/ CallGetIndexesForTable

NextTwice ==
  \/ ReadFile
  \/ SplitLine
  \/ SplitFlush
  \/ ProcessStatement
  \/ ParseDumpReturn
  \/ ParseAgain

\* one call of ParseDump
NextParse ==
  \/ ReadFile
  \/ SplitLine
  \/ SplitFlush
  \/ ProcessStatement
  \/ ParseDumpReturn

\* one call of ParseDump, and accessor calls on its model
Init == InitOver(LookupChunks)
Spec == Init /\ [][Next]_vars

\* the same over the files of each of the other sets of chunks
SpecTable == InitOver(TableChunks) /\ [][Next]_vars

SpecSegment == InitOver(SegmentChunks) /\ [][Next]_vars

SpecBackfill == InitOver(BackfillChunks) /\ [][Next]_vars

SpecExcluded == InitOver(ExcludedChunks) /\ [][Next]_vars

SpecMalformed == InitOver(MalformedChunks) /\ [][Next]_vars

SpecSequence == InitOver(SequenceChunks) /\ [][Next]_vars

SpecBody == InitOver(BodyChunks) /\ [][Next]_vars

\* one call of ParseDump on the files of further sets of chunks
SpecEnum == InitOver(EnumChunks) /\ [][NextParse]_vars

SpecPath == InitOver(PathChunks) /\ [][NextParse]_vars

SpecShape == InitOver(ShapeChunks) /\ [][NextParse]_vars

SpecVersion == InitOver(VersionChunks) /\ [][NextParse]_vars

SpecDefer == InitOver(DeferChunks) /\ [][NextParse]_vars

SpecKind == InitOver(KindChunks) /\ [][NextParse]_vars

SpecEmbedded == InitOver(EmbeddedChunks) /\ [][NextParse]_vars

SpecIdentity == InitOver(IdentityChunks) /\ [][NextParse]_vars

\* one call of ParseDump and one call of RunAnalyze on its model
NextAnalyze ==
  \/ ReadFile
  \/ SplitLine
  \/ SplitFlush
  \/ ProcessStatement
  \/ ParseDumpReturn
  \/ CallRunAnalyze
  \/ RunCheck
  \/ RunAnalyzeReturn

SpecAnalyze == InitOver(AnalyzeChunks) /\ [][NextAnalyze]_vars

\* a call of extractParenContent
SpecParen == InitOver({}) /\ [][CallExtractParenContent]_vars

\* registrations and calls of GetChecks
NextChecks ==
  \/ Register
  \/ CallGetChecks

SpecChecks == InitOver({}) /\ [][NextChecks]_vars

\* calls of ParseDump one after another on the same file
SpecTwice == InitOver(TwiceChunks) /\ [][NextTwice]_vars

\* ---------------------------------------------------------- properties

\* what the chunks that create a table declare: the table, its columns in
\* order, and the kinds of its table-level constraints in order
Declared ==
  ("OrdersTable" :> [schema |-> "public", name |-> "orders",
                     columns |-> <<"id", "customer_id">>, constraints |-> <<>>]) @@
  ("PlainTable" :> [schema |-> "public", name |-> "t",
                    columns |-> <<"id", "amount", "note">>, constraints |-> <<>>]) @@
  ("KeywordColTable" :> [schema |-> "public", name |-> "t",
                         columns |-> <<"check", "b">>, constraints |-> <<>>]) @@
  ("CommaDefaultTable" :> [schema |-> "public", name |-> "t",
                           columns |-> <<"note", "b">>, constraints |-> <<>>]) @@
  ("InlineKeysTable" :> [schema |-> "public", name |-> "t",
                         columns |-> <<"a", "b">>,
                         constraints |-> <<"PRIMARY KEY", "UNIQUE", "FOREIGN KEY">>]) @@
  ("CheckTable" :> [schema |-> "public", name |-> "t",
                    columns |-> <<"a">>, constraints |-> <<"CHECK">>]) @@
  ("ExcludeTable" :> [schema |-> "public", name |-> "t",
                      columns |-> <<"a">>, constraints |-> <<"EXCLUDE">>]) @@
  ("OrdersPlain" :> [schema |-> "public", name |-> "orders",
                     columns |-> <<"id", "customer_id">>, constraints |-> <<>>]) @@
  ("CustomersTable" :> [schema |-> "public", name |-> "customers",
                        columns |-> <<"id">>, constraints |-> <<>>]) @@
  ("AppOrders" :> [schema |-> "app", name |-> "orders",
                   columns |-> <<"id">>, constraints |-> <<>>]) @@
  ("CatalogOrders" :> [schema |-> "pg_catalog", name |-> "orders",
                       columns |-> <<"id">>, constraints |-> <<>>]) @@
  ("NumericKeyTable" :> [schema |-> "public", name |-> "n",
                         columns |-> <<"a", "b">>,
                         constraints |-> <<"PRIMARY KEY">>])

\* the positions in the file of the chunks of the set S, in order
Positions(S) ==
  SelectSeq([i \in 1..Len(file.chunks) |-> i], LAMBDA i : file.chunks[i] \in S)

\* the positions of the chunks that create a table outside the excluded
\* schemas
TablePositions ==
  Positions({c \in DOMAIN Declared : Declared[c].schema \notin excludedSchemas})

\* the names of the columns of a table of the model, in order
ColumnNames(tbl) == [j \in DOMAIN tbl.Columns |-> tbl.Columns[j].Name]

\* the model has a constraint of the kind on the table
HasConstraint(kind, tschema, tname) ==
  \E k \in DOMAIN schema.Constraints :
    /\ schema.Constraints[k].ConstraintType = kind
    /\ schema.Constraints[k].TableSchema = tschema
    /\ schema.Constraints[k].TableName = tname

\* C1: parsing the dump that creates table orders with a column-level primary
\* key and a column-level foreign key and then sets a default on orders.id
\* gives a model with one table of two columns, the default on id, and a
\* PRIMARY KEY and a FOREIGN KEY constraint on the table
C1_OrdersScenario ==
  (pc = "done" /\ file.chunks = <<"OrdersTable", "OrdersSetDefault">>) =>
    /\ Len(schema.Tables) = 1
    /\ schema.Tables[1].SchemaName = "public"
    /\ schema.Tables[1].TableName = "orders"
    /\ ColumnNames(schema.Tables[1]) = <<"id", "customer_id">>
    /\ schema.Tables[1].Columns[1].DefaultExpr
         = "nextval('public.orders_id_seq'::regclass)"
    /\ HasConstraint("PRIMARY KEY", "public", "orders")
    /\ HasConstraint("FOREIGN KEY", "public", "orders")

\* C2: no entity of the model, of any kind, extensions included, lies in an
\* excluded schema
C2_NoEntityInExcludedSchema ==
  /\ \A k \in DOMAIN schema.Tables :
       schema.Tables[k].SchemaName \notin excludedSchemas
  /\ \A k \in DOMAIN schema.Constraints :
       schema.Constraints[k].TableSchema \notin excludedSchemas
  /\ \A k \in DOMAIN schema.Indexes :
       schema.Indexes[k].TableSchema \notin excludedSchemas
  /\ \A k \in DOMAIN schema.Sequences :
       schema.Sequences[k].SchemaName \notin excludedSchemas
  /\ \A k \in DOMAIN schema.EnumTypes :
       schema.EnumTypes[k].SchemaName \notin excludedSchemas
  /\ \A k \in DOMAIN schema.Rules :
       schema.Rules[k].SchemaName \notin excludedSchemas
  /\ \A k \in DOMAIN schema.Extensions :
       schema.Extensions[k].SchemaName \notin excludedSchemas

\* the chunks whose statement has a dollar-quoted body of several lines
FunctionChunks ==
  {"FnEmptyTag", "FnNamedTag", "FnBodySetPath", "FnDollarName", "FnDefaultQuoted"}

\* the chunks that hold a statement
StatementChunks == SegmentChunks \ {"HeaderComment"}

\* the lines of a chunk that are neither comments nor blank
StatementLines(c) ==
  SelectSeq(Chunk[c], LAMBDA l : ~IsCommentLine(l) /\ ~IsBlankLine(l))

\* every statement before the last one of the file ends with a semicolon
AllTerminated ==
  \A j \in 1..(Len(file.chunks) - 1) : file.chunks[j] # "Unterminated"

\* C3: a statement whose body is a dollar-quoted string of several lines with
\* semicolons is emitted as exactly one statement, from its first line to the
\* line that closes the body: the file gives one statement per statement
\* chunk, and the one of a function chunk is the chunk's lines
C3_DollarBodyOneStatement ==
  (pc \in {"process", "done"} /\ AllTerminated) =>
    LET at == Positions(StatementChunks)
    IN  /\ Len(results) = Len(at)
        /\ \A k \in DOMAIN at :
             file.chunks[at[k]] \in FunctionChunks =>
               results[k].stmt = Join(StatementLines(file.chunks[at[k]]), "\n")

\* C4: a CREATE TABLE body with N column definitions and no table-level
\* constraint yields exactly those N columns in declaration order, also when
\* a quoted column name is a constraint keyword and when the string literal
\* of a default holds a comma
C4_ColumnsAsDeclared ==
  pc = "done" =>
    /\ Len(schema.Tables) = Len(TablePositions)
    /\ \A k \in DOMAIN schema.Tables :
         LET d == Declared[file.chunks[TablePositions[k]]]
         IN  d.constraints = <<>> => ColumnNames(schema.Tables[k]) = d.columns

RECURSIVE InlineConstraintsFrom(_)
\* the table-level constraints the chunks from position i on declare inside
\* CREATE TABLE: <<kind, table schema, table name>> in order
InlineConstraintsFrom(i) ==
  IF i > Len(file.chunks) THEN <<>>
  ELSE LET c == file.chunks[i]
       IN  (IF c \in DOMAIN Declared
            THEN [j \in DOMAIN Declared[c].constraints |->
                    <<Declared[c].constraints[j], Declared[c].schema, Declared[c].name>>]
            ELSE <<>>) \o InlineConstraintsFrom(i + 1)

\* C5: inside a CREATE TABLE body every top-level segment that begins with a
\* constraint keyword, CHECK and EXCLUDE included, gives exactly one
\* constraint of that kind on the enclosing table, in order
C5_InlineConstraintsProduced ==
  pc = "done" =>
    [k \in DOMAIN schema.Constraints |->
       <<schema.Constraints[k].ConstraintType,
         schema.Constraints[k].TableSchema,
         schema.Constraints[k].TableName>>] = InlineConstraintsFrom(1)

\* the entity each back-fill chunk amends
BackfillTarget ==
  ("OrdersSetDefault" :> [kind |-> "column", field |-> "DefaultExpr",
                          schema |-> "public", name |-> "orders", column |-> "id"]) @@
  ("NoColSetDefault" :> [kind |-> "column", field |-> "DefaultExpr",
                         schema |-> "public", name |-> "orders", column |-> "nosuch"]) @@
  ("OrdersAddIdentity" :> [kind |-> "column", field |-> "Identity",
                           schema |-> "public", name |-> "orders", column |-> "id"]) @@
  ("OrdersSeqOwned" :> [kind |-> "sequence", field |-> "OwnedByTable",
                        schema |-> "public", name |-> "orders_id_seq", column |-> ""])

\* the target of a back-fill chunk is in the model s
TargetPresent(c, s) ==
  LET t == BackfillTarget[c]
  IN  IF t.kind = "sequence"
      THEN \E k \in DOMAIN s.Sequences :
             s.Sequences[k].SchemaName = t.schema /\ s.Sequences[k].SequenceName = t.name
      ELSE \E k \in DOMAIN s.Tables :
             /\ s.Tables[k].SchemaName = t.schema
             /\ s.Tables[k].TableName = t.name
             /\ \E j \in DOMAIN s.Tables[k].Columns : s.Tables[k].Columns[j].Name = t.column

\* a processed chunk after position i amends the field of the entity
AmendedAfter(i, kind, field, eschema, ename, column) ==
  \E x \in (i + 1)..(si - 1) :
    /\ x <= Len(file.chunks)
    /\ file.chunks[x] \in DOMAIN BackfillTarget
    /\ BackfillTarget[file.chunks[x]] =
         [kind |-> kind, field |-> field, schema |-> eschema, name |-> ename,
          column |-> column]

\* a field that only a back-fill sets is set only on an entity declared
\* before the back-fill statement
NotRetroactive ==
  pc \in {"process", "done"} =>
    /\ \A k \in DOMAIN schema.Tables : \A j \in DOMAIN schema.Tables[k].Columns :
         LET t == schema.Tables[k]
             col == t.Columns[j]
             i == Positions(DOMAIN Declared)[k]
         IN  /\ col.DefaultExpr # "" =>
                  AmendedAfter(i, "column", "DefaultExpr", t.SchemaName, t.TableName, col.Name)
             /\ col.Identity # "" =>
                  AmendedAfter(i, "column", "Identity", t.SchemaName, t.TableName, col.Name)
    /\ \A k \in DOMAIN schema.Sequences :
         LET q == schema.Sequences[k]
             i == Positions({"OrdersSeq"})[k]
         IN  q.OwnedByTable # "" =>
               AmendedAfter(i, "sequence", "OwnedByTable", q.SchemaName, q.SequenceName, "")

C7_FailsOnlyWhenUnreadable ==
  /\ pc = "failed" => ~file.readable
  /\ pc \in {"split", "process", "done"} => file.readable
  /\ pc # "panicked"

\* the tables the statements of the file declare
DeclaredPairs ==
  {<<Declared[file.chunks[i]].schema, Declared[file.chunks[i]].name>> :
     i \in {x \in DOMAIN file.chunks : file.chunks[x] \in DOMAIN Declared}}

\* C8: GetTable gives a table for every (schema, name) a CREATE
\* TABLE statement of the input declares, and nil for every other pair
C8_DeclaredIsPresent ==
  ret.op = "GetTable" =>
    (ret.value # 0 <=> <<ret.schema, ret.name>> \in DeclaredPairs)

\* C9: GetConstraintsForTable gives, in model order, exactly the constraints
\* of the requested table, of the requested kind when one is given;
\* GetIndexesForTable gives, in model order, exactly the indexes of the
\* table; neither call changes the model
C9_AccessorsFilterInOrder ==
  [][pc = "done" =>
       /\ schema' = schema
       /\ ret'.op = "GetConstraintsForTable" =>
            ret'.value = SelectSeq(schema.Constraints, LAMBDA c :
                           /\ c.TableSchema = ret'.schema
                           /\ c.TableName = ret'.name
                           /\ (ret'.kind = "" \/ c.ConstraintType = ret'.kind))
       /\ ret'.op = "GetIndexesForTable" =>
            ret'.value = SelectSeq(schema.Indexes, LAMBDA x :
                           x.TableSchema = ret'.schema /\ x.TableName = ret'.name)]_vars

\* one kind of the two constraints of a table has been asked for
C9_Witness ==
  /\ ret.op = "GetConstraintsForTable"
  /\ file.chunks = <<"AddPkOrders", "AddFkOrders">>
  /\ ret.schema = "public"
  /\ ret.name = "orders"
  /\ ret.kind = "FOREIGN KEY"
  /\ Len(ret.value) = 1
  /\ Len(schema.Constraints) = 2

SequenceDeclared ==
  ("SeqScenario" :> [DataType |-> "smallint", StartValue |-> <<5>>,
                     Increment |-> <<2>>, MinValue |-> <<>>,
                     MaxValue |-> <<100>>, Cycle |-> TRUE]) @@
  ("SeqZeroNoCycle" :> [DataType |-> "bigint", StartValue |-> <<0>>,
                        Increment |-> <<>>, MinValue |-> <<0>>,
                        MaxValue |-> <<>>, Cycle |-> FALSE]) @@
  ("SeqDescending" :> [DataType |-> "bigint", StartValue |-> <<100>>,
                       Increment |-> <<-1>>, MinValue |-> <<1>>,
                       MaxValue |-> <<100>>, Cycle |-> FALSE]) @@
  ("SeqAsInteger" :> [DataType |-> "integer", StartValue |-> <<1>>,
                      Increment |-> <<1>>, MinValue |-> <<>>,
                      MaxValue |-> <<>>, Cycle |-> FALSE]) @@
  ("OrdersSeq" :> [DataType |-> "bigint", StartValue |-> <<1>>,
                   Increment |-> <<1>>, MinValue |-> <<>>,
                   MaxValue |-> <<>>, Cycle |-> FALSE]) @@
  ("PlainSeq" :> [DataType |-> "bigint", StartValue |-> <<>>,
                  Increment |-> <<>>, MinValue |-> <<>>,
                  MaxValue |-> <<>>, Cycle |-> FALSE]) @@
  ("BigSeq" :> [DataType |-> "bigint", StartValue |-> <<>>,
                Increment |-> <<>>, MinValue |-> <<>>,
                MaxValue |-> <<>>, Cycle |-> FALSE])

\* the positions of the file's chunks that create a sequence, in order
SequencePositions == Positions(DOMAIN SequenceDeclared)

\* C11: a CREATE SEQUENCE statement captures every option it declares: the
\* k-th sequence of the model has the data type (bigint without an AS clause),
\* the start, increment, min and max values and the cycle flag that the k-th
\* sequence statement of the file declares; in particular the statement
\* "create sequence s as smallint start with 5 increment by 2 maxvalue 100
\* cycle" gives smallint, 5, 2, max 100, min unset and cycle true
C11_SequenceOptionsCaptured ==
  pc = "done" =>
    /\ Len(schema.Sequences) = Len(SequencePositions)
    /\ \A k \in DOMAIN SequencePositions :
         LET d == SequenceDeclared[file.chunks[SequencePositions[k]]]
             q == schema.Sequences[k]
         IN  /\ q.DataType = d.DataType
             /\ q.StartValue = d.StartValue
             /\ q.Increment = d.Increment
             /\ q.MinValue = d.MinValue
             /\ q.MaxValue = d.MaxValue
             /\ q.Cycle = d.Cycle

\* the four numeric options of a sequence
NumericOptions == {"StartValue", "Increment", "MinValue", "MaxValue"}

\* C17: each of a sequence's start, increment, min and max fields is unset
\* when the statement does not hold the option or holds a value that does not
\* fit 64 bits, and is set to the declared value otherwise, an explicit 0
\* included; an unset field is the empty <<>>, never <<0>>
C17_NumericOptionSetIffDeclared ==
  pc = "done" =>
    /\ Len(schema.Sequences) = Len(SequencePositions)
    /\ \A k \in DOMAIN SequencePositions : \A f \in NumericOptions :
         schema.Sequences[k][f]
           = SequenceDeclared[file.chunks[SequencePositions[k]]][f]

\* the number of "(" less the number of ")" in a text
ParenBalance(text) ==
  Cardinality({i \in DOMAIN text : text[i] = "("})
    - Cardinality({i \in DOMAIN text : text[i] = ")"})

\* the data types the columns of the chunks with a type in parentheses
\* declare, in order
DeclaredTypes ==
  ("PlainTable" :> <<"integer", "numeric(10,2)", "text">>) @@
  ("NumericKeyTable" :> <<"numeric(10,2)", "numeric(12,4)">>)

\* the table bodies of the statements found: the text inside the parentheses
\* of each statement that reCreateTable matches
TableBodies ==
  {extractParenContent(results[k].stmt) :
     k \in {j \in DOMAIN results : MatchString(reCreateTable, results[j].stmt)}}

EnumDeclared ==
  ("EnumStatus" :> <<"a", "b", "c">>) @@
  ("EnumMood" :> <<"sad", "ok">>) @@
  ("EnumUnqual" :> <<"red">>) @@
  ("EnumSpaced" :> <<"in progress", "done">>) @@
  ("EnumCommaLabel" :> <<"small", "medium, large">>) @@
  ("EnumNone" :> <<>>)

\* the positions of the file's chunks that create such an enum type, in order
EnumPositions == Positions(DOMAIN EnumDeclared)

\* C13: each CREATE TYPE ... AS ENUM statement yields one EnumTypeDef whose
\* labels are exactly the declared labels, quotes stripped, in declaration
\* order; "create type public.status as enum ('a','b','c')" yields a, b, c
C13_EnumLabelsAsDeclared ==
  pc = "done" =>
    /\ Len(schema.EnumTypes) = Len(EnumPositions)
    /\ \A k \in DOMAIN EnumPositions :
         schema.EnumTypes[k].Labels = EnumDeclared[file.chunks[EnumPositions[k]]]

\* what the search_path directives among the chunks establish: the first
\* entry of the list that is not pg_catalog, "" when the list has none
PathDirective ==
  ("SetPath" :> "app") @@ ("SetPathCatalogFirst" :> "sales") @@
  ("SetPathCatalog" :> "") @@ ("SelectPath" :> "") @@
  ("SelectPathApp" :> "app")

RECURSIVE CurrentSchemaAt(_)
\* the current schema for the chunk at position i of the file: what the most
\* recent directive before it established, public when there is none
CurrentSchemaAt(i) ==
  IF i <= 1 THEN "public"
  ELSE IF file.chunks[i - 1] \in DOMAIN PathDirective
          /\ PathDirective[file.chunks[i - 1]] # ""
       THEN PathDirective[file.chunks[i - 1]]
       ELSE CurrentSchemaAt(i - 1)

\* the chunks that declare an entity: the container it goes to, and the
\* schema that qualifies the object's name, "" for an unqualified name
NamedIn ==
  ("UnqualTable" :> [container |-> "Tables", qualifier |-> ""]) @@
  ("AppOrders" :> [container |-> "Tables", qualifier |-> "app"]) @@
  ("UnqualAddCon" :> [container |-> "Constraints", qualifier |-> ""]) @@
  ("UnqualIndex" :> [container |-> "Indexes", qualifier |-> ""]) @@
  ("PlainSeq" :> [container |-> "Sequences", qualifier |-> ""]) @@
  ("EnumUnqual" :> [container |-> "EnumTypes", qualifier |-> ""]) @@
  ("UnqualRule" :> [container |-> "Rules", qualifier |-> ""]) @@
  ("ExtPlain" :> [container |-> "Extensions", qualifier |-> ""])

\* the field of the entities of each container that holds the schema
SchemaField ==
  ("Tables" :> "SchemaName") @@ ("Constraints" :> "TableSchema") @@
  ("Indexes" :> "TableSchema") @@ ("Sequences" :> "SchemaName") @@
  ("EnumTypes" :> "SchemaName") @@ ("Rules" :> "SchemaName") @@
  ("Extensions" :> "SchemaName")

\* the schemas of the entities of a container of the model, in order
SchemasOf(container) ==
  [k \in DOMAIN schema[container] |-> schema[container][k][SchemaField[container]]]

\* the schemas the entities of a container should carry, in order: the
\* qualifier of the name, or the current schema for the statement
ResolvedSchemas(container) ==
  LET at == Positions({c \in DOMAIN NamedIn : NamedIn[c].container = container})
  IN  [k \in DOMAIN at |->
         IF NamedIn[file.chunks[at[k]]].qualifier # ""
         THEN NamedIn[file.chunks[at[k]]].qualifier
         ELSE CurrentSchemaAt(at[k])]

\* C14: in every state every table, constraint, index, sequence, enum type,
\* rule and extension of the model carries a non-empty schema name, and the
\* entities of the finished model carry the resolved one: the qualifier of
\* the object's name when it has one, otherwise the current search_path
\* schema for the statement, public at the start
C14_EveryEntityHasResolvedSchema ==
  /\ \A container \in DOMAIN SchemaField :
       \A k \in DOMAIN schema[container] : SchemasOf(container)[k] # ""
  /\ pc = "done" =>
       \A container \in DOMAIN SchemaField :
         SchemasOf(container) = ResolvedSchemas(container)

\* C16: the schema handed over with each statement, to which its unqualified
\* names resolve, is the one the most recent search_path directive before
\* the statement established (the first entry of its list that is not
\* pg_catalog), and public when no directive before it established one
C16_MostRecentDirectiveResolves ==
  pc \in {"process", "done"} =>
    /\ Len(results) = Len(file.chunks)
    /\ \A k \in DOMAIN results :
         file.chunks[k] \notin DOMAIN PathDirective =>
           results[k].searchPath = CurrentSchemaAt(k)

\* the recognizers in the order in which processStatement tries them
RecognizerOrder ==
  <<"extension", "enum", "sequence", "table", "add_constraint", "index",
    "set_default", "add_identity", "seq_owned", "rule">>

\* the condition under which the branch r of processStatement takes a
\* statement, whatever the branches before it do
RecognizerMatches(r, stmt) ==
  CASE r = "extension" ->
         /\ MatchString(reCreateExtension, stmt)
         /\ HasPrefix(TrimSpace(ToUpper(TrimSpace(stmt))), <<"CREATE">>)
    [] r = "enum" -> MatchString(reCreateTypeEnum, stmt)
    [] r = "sequence" ->
         /\ MatchString(reCreateSequence, stmt)
         /\ Contains(ToUpper(TrimSpace(stmt)), <<"CREATE", " ", "SEQUENCE">>)
    [] r = "table" -> MatchString(reCreateTable, stmt)
    [] r = "add_constraint" -> MatchString(reAlterAddConstraint, stmt)
    [] r = "index" -> MatchString(reCreateIndex, stmt)
    [] r = "set_default" -> MatchString(reAlterSetDefault, stmt)
    [] r = "add_identity" -> MatchString(reAlterAddIdentity, stmt)
    [] r = "seq_owned" -> MatchString(reAlterSeqOwned, stmt)
    [] r = "rule" -> MatchString(reCreateRule, stmt)

\* the positions in the order of the recognizers that match a statement
MatchingRecognizers(stmt) ==
  {j \in DOMAIN RecognizerOrder : RecognizerMatches(RecognizerOrder[j], stmt)}

\* C15: a statement is claimed by the first recognizer, in the fixed order,
\* whose pattern matches it (by none when no pattern matches), and no
\* statement matches the pattern of more than one recognizer
C15_OneRecognizerPerStatement ==
  pc \in {"process", "done"} =>
    \A k \in DOMAIN results :
      LET M == MatchingRecognizers(results[k].stmt)
          r == Recognizer(results[k].stmt, ToUpper(TrimSpace(results[k].stmt)))
      IN  /\ Cardinality(M) <= 1
          /\ r = IF M = {} THEN "none" ELSE RecognizerOrder[Min(M)]

\* how often a check occurs in a slice
CountOf(slice, c) == Cardinality({i \in DOMAIN slice : slice[i] = c})

\* the check is one GetChecks(mode, categories) is to return: its mode is the
\* requested one or "both", or no mode is requested, and its category is in
\* the list, or the list is empty
Requested(c, mode, categories) ==
  /\ mode = "" \/ c.Mode = mode \/ c.Mode = "both"
  /\ categories = <<>> \/ \E i \in DOMAIN categories : categories[i] = c.Category

\* the slice is sorted by category and then by name
SortedByCategoryAndName(slice) ==
  \A i, j \in DOMAIN slice :
    i < j =>
      \/ StringLess(slice[i].Category, slice[j].Category)
      \/ /\ slice[i].Category = slice[j].Category
         /\ ~StringLess(slice[j].Name, slice[i].Name)

\* C18: GetChecks(mode, categories) returns exactly the registered checks
\* whose mode is the requested mode or "both" (all when mode is empty) and
\* whose category is in the list (all when the list is empty, none for a
\* category no check has), each as often as it is registered, sorted by
\* category and then by name
C18_GetChecksFiltersAndSorts ==
  [][(registry' = registry /\ ret'.op = "GetChecks") =>
       /\ \A i \in DOMAIN ret'.value : ret'.value[i] \in Checks
       /\ \A c \in Checks :
            CountOf(ret'.value, c)
              = IF Requested(c, ret'.mode, ret'.categories)
                THEN CountOf(registry, c) ELSE 0
       /\ SortedByCategoryAndName(ret'.value)]_vars

\* GetChecks("scan", [schema, config]) was called with three checks
\* registered; it left out the audit check and put the other two in order
C18_Witness ==
  /\ registry = <<[Name |-> "rules", Category |-> "schema", Mode |-> "scan"],
                  [Name |-> "spock_gucs", Category |-> "config", Mode |-> "audit"],
                  [Name |-> "any_check", Category |-> "config", Mode |-> "both"]>>
  /\ ret.op = "GetChecks"
  /\ ret.mode = "scan"
  /\ ret.categories = <<"schema", "config">>
  /\ ret.value = <<[Name |-> "any_check", Category |-> "config", Mode |-> "both"],
                   [Name |-> "rules", Category |-> "schema", Mode |-> "scan"]>>

\* the fields of the columns that differ between the models s and t, which
\* have the same tables with the same number of columns: <<table, column,
\* field>>
ChangedColumnFields(s, t) ==
  {x \in UNION {UNION {{<<k, j, f>> : f \in DOMAIN s.Tables[k].Columns[j]} :
                         j \in DOMAIN s.Tables[k].Columns} :
                  k \in DOMAIN s.Tables} :
     s.Tables[x[1]].Columns[x[2]][x[3]] # t.Tables[x[1]].Columns[x[2]][x[3]]}

\* from s to t nothing is appended or changed but fields of columns
OnlyColumnFieldsChange(s, t) ==
  /\ t = [s EXCEPT !.Tables = t.Tables]
  /\ Len(t.Tables) = Len(s.Tables)
  /\ \A k \in DOMAIN s.Tables :
       /\ t.Tables[k] = [s.Tables[k] EXCEPT !.Columns = t.Tables[k].Columns]
       /\ Len(t.Tables[k].Columns) = Len(s.Tables[k].Columns)

\* the back-fill of a column: nothing is appended, and at most one field
\* changes, the field of the target in the named column of the named table
ColumnBackfillFrame(target, s, t) ==
  /\ OnlyColumnFieldsChange(s, t)
  /\ Cardinality(ChangedColumnFields(s, t)) <= 1
  /\ \A x \in ChangedColumnFields(s, t) :
       /\ x[3] = target.field
       /\ s.Tables[x[1]].SchemaName = target.schema
       /\ s.Tables[x[1]].TableName = target.name
       /\ s.Tables[x[1]].Columns[x[2]].Name = target.column

\* the back-fill of a sequence: nothing is appended, and only the owning
\* table and column of at most one sequence change, those of the named one
SequenceBackfillFrame(target, s, t) ==
  /\ t = [s EXCEPT !.Sequences = t.Sequences]
  /\ Len(t.Sequences) = Len(s.Sequences)
  /\ Cardinality({k \in DOMAIN s.Sequences : t.Sequences[k] # s.Sequences[k]}) <= 1
  /\ \A k \in DOMAIN s.Sequences :
       /\ t.Sequences[k] =
            [s.Sequences[k] EXCEPT !.OwnedByTable = t.Sequences[k].OwnedByTable,
                                   !.OwnedByColumn = t.Sequences[k].OwnedByColumn]
       /\ t.Sequences[k] # s.Sequences[k] =>
            /\ s.Sequences[k].SchemaName = target.schema
            /\ s.Sequences[k].SequenceName = target.name

BackfillRecognizers == {"set_default", "add_identity", "seq_owned"}

RECURSIVE DollarTokens(_, _)
\* the $tag$ tokens of a line from atom i on, left to right without overlap,
\* each with the position of its first atom
DollarTokens(s, i) ==
  IF i > Len(s) THEN <<>>
  ELSE IF s[i] = "$" /\ i + 1 <= Len(s) /\ s[i + 1] = "$"
       THEN <<[at |-> i, tag |-> SubSeq(s, i, i + 1)]>> \o DollarTokens(s, i + 2)
  ELSE IF s[i] = "$" /\ i + 2 <= Len(s) /\ IsWord(s[i + 1]) /\ s[i + 2] = "$"
       THEN <<[at |-> i, tag |-> SubSeq(s, i, i + 2)]>> \o DollarTokens(s, i + 3)
  ELSE DollarTokens(s, i + 1)

RECURSIVE OpenTag(_, _, _)
\* the tag left open at the end of a line whose tokens are tks, read from
\* token k on with the tag open before it (<<>> for none): a token opens a
\* region, and the next token with the same tag closes it
OpenTag(tks, k, open) ==
  IF k > Len(tks) THEN open
  ELSE IF open = <<>> THEN OpenTag(tks, k + 1, tks[k].tag)
  ELSE IF tks[k].tag = open THEN OpenTag(tks, k + 1, <<>>)
  ELSE OpenTag(tks, k + 1, open)

\* the tag of the token of a line that opens a region the line does not
\* close: its tag does not reappear later on the line; <<>> for none
OpeningTag(s) == OpenTag(DollarTokens(s, 1), 1, <<>>)

\* a line that is segmented: neither a comment line nor blank
IsTextLine(line) == ~IsCommentLine(line) /\ ~IsBlankLine(line)

\* C21: a dollar-quoted region opens exactly when a line outside any region
\* holds a $tag$ token whose tag does not reappear later on that line, with
\* that tag; while the region is open no statement is emitted; and the region
\* closes at the first later line that holds the tag
C21_DollarRegionFollowsTags ==
  [][(pc = "split" /\ li' = li + 1) =>
       /\ (~inDollarQuote /\ IsTextLine(lines[li])) =>
            /\ inDollarQuote' <=> OpeningTag(TrimSpace(lines[li])) # <<>>
            /\ inDollarQuote' => dollarTag' = OpeningTag(TrimSpace(lines[li]))
       /\ inDollarQuote =>
            (inDollarQuote' <=> ~Contains(TrimSpace(lines[li]), dollarTag))
       /\ inDollarQuote' => results' = results]_vars

\* the tag of the dollar-quoted region open after a line, open the tag
\* before it, <<>> for none: a region opens at a text line outside any region
\* with a token whose tag does not reappear on the line, and closes at the
\* first later line that holds the tag
RegionAfter(open, line) ==
  IF open = <<>>
  THEN IF IsTextLine(line) THEN OpeningTag(TrimSpace(line)) ELSE <<>>
  ELSE IF Contains(TrimSpace(line), open) THEN <<>> ELSE open

RECURSIVE Partition(_, _, _, _, _)
\* the statements from line k on, with the region open after line k, the
\* lines acc gathered so far and the statements out: a text line goes to the
\* statement being gathered, which ends with a line that ends with ; outside
\* any region
PartitionLine(ls, k, open, acc, out) ==
  IF ~IsTextLine(ls[k]) THEN Partition(ls, k + 1, open, acc, out)
  ELSE IF open = <<>> /\ HasSuffix(TrimSpace(ls[k]), <<";">>)
       THEN Partition(ls, k + 1, open, <<>>, Append(out, Append(acc, ls[k])))
  ELSE Partition(ls, k + 1, open, Append(acc, ls[k]), out)

\* the statements from line k on, with the region open before line k; the
\* remainder at the end of the input is a last statement
Partition(ls, k, open, acc, out) ==
  IF k > Len(ls) THEN (IF acc = <<>> THEN out ELSE Append(out, acc))
  ELSE PartitionLine(ls, k, RegionAfter(open, ls[k]), acc, out)

\* the lines of the statements that splitStatements returned
EmittedLines == [i \in 1..Len(results) |-> Split(results[i].stmt, "\n")]

\* C22: the statements that the segmentation returns are the partition of
\* the text lines of the file: every line that is neither blank nor a comment
\* is in exactly one statement, in file order, a statement ends exactly at a
\* line that ends with ; outside any open dollar-quoted region, and the
\* unterminated remainder at the end of the input is the last statement
C22_StatementsPartitionLines ==
  pc \in {"process", "done", "panicked"} =>
    EmittedLines = Partition(lines, 1, <<>>, <<>>, <<>>)

\* the text of the version line in front of the version
VersionLead == <<"Dumped", " ", "from", " ", "database", " ", "version", " ">>

\* the comment lines with "Dumped from database version X", X not empty
VersionLines ==
  {k \in 1..Len(lines) :
     /\ IsCommentLine(lines[k])
     /\ Contains(TrimSpace(lines[k]), VersionLead)
     /\ ~HasSuffix(TrimSpace(lines[k]), VersionLead)}

\* the rest of a version line after "version "
RestOfVersionLine(s) == Flat(From(s, Index(s, VersionLead) + Len(VersionLead)))

\* C23: the version string of the model is the rest, after "version ", of
\* the first comment line with "Dumped from database version X", whatever
\* matching lines follow it, and is empty when no comment line matches
C23_VersionIsRestOfFirstMatch ==
  pc = "done" =>
    schema.PgVersion = IF VersionLines = {} THEN ""
                       ELSE RestOfVersionLine(TrimSpace(lines[Min(VersionLines)]))

\* the text of a chunk of one statement, in upper case
UpperText(c) == ToUpper(Join(Chunk[c], "\n"))

\* whether the constraint of a chunk is declared deferrable: DEFERRABLE
\* occurs and NOT DEFERRABLE does not
DeclaredDeferrable(c) ==
  /\ Contains(UpperText(c), <<"DEFERRABLE">>)
  /\ ~Contains(UpperText(c), <<"NOT", " ", "DEFERRABLE">>)

\* whether the constraint of a chunk is declared initially deferred
DeclaredInitiallyDeferred(c) ==
  Contains(UpperText(c), <<"INITIALLY", " ", "DEFERRED">>)

\* C24: every constraint, from ALTER TABLE ADD CONSTRAINT or from a table
\* body, is deferrable exactly when its text has DEFERRABLE and not NOT
\* DEFERRABLE, and initially deferred exactly when its text has INITIALLY
\* DEFERRED, so the same constraint text gives the same flags on both paths;
\* each chunk of the files declares one constraint
C24_DeferFlagsFollowText ==
  pc = "done" =>
    /\ Len(schema.Constraints) = Len(file.chunks)
    /\ \A k \in DOMAIN schema.Constraints :
         /\ schema.Constraints[k].Deferrable = DeclaredDeferrable(file.chunks[k])
         /\ schema.Constraints[k].InitiallyDeferred =
              DeclaredInitiallyDeferred(file.chunks[k])

\* the kinds of constraints, as the model names them
ConstraintKinds == {"PRIMARY KEY", "UNIQUE", "FOREIGN KEY", "EXCLUDE", "CHECK"}

\* the constraints that the ALTER TABLE chunks add to public.orders: the
\* name and the kind each declares
AddedConstraint ==
  [AddPkOrders      |-> <<"orders_pkey", "PRIMARY KEY">>,
   AddPkLower       |-> <<"orders_pkey", "PRIMARY KEY">>,
   AddPkTwoSpaces   |-> <<"orders_pkey", "PRIMARY KEY">>,
   AddPkThreeSpaces |-> <<"orders_pkey", "PRIMARY KEY">>,
   AddPkNewline     |-> <<"orders_pkey", "PRIMARY KEY">>,
   AddFkTab         |-> <<"orders_customer_fkey", "FOREIGN KEY">>,
   AddFkOrders      |-> <<"orders_customer_fkey", "FOREIGN KEY">>,
   AddUqOrders      |-> <<"orders_customer_key", "UNIQUE">>,
   AddCheckOrders   |-> <<"orders_id_check", "CHECK">>]

\* whether the lookup of the constraints of public.orders of a kind finds one
\* with the name
FoundByKind(name, kind) ==
  \E k \in DOMAIN GetConstraintsForTable(schema, "public", "orders", kind) :
     GetConstraintsForTable(schema, "public", "orders", kind)[k].Name = name

\* C25: the kind of every constraint of the model is one of PRIMARY KEY,
\* UNIQUE, FOREIGN KEY, EXCLUDE and CHECK, in upper case with one space,
\* whatever case and white space the statement has between the words, and
\* the lookup of a table's constraints of the declared kind finds each
\* constraint that a statement of the file adds
C25_KindIsCanonical ==
  pc = "done" =>
    /\ \A k \in DOMAIN schema.Constraints :
         schema.Constraints[k].ConstraintType \in ConstraintKinds
    /\ \A j \in DOMAIN file.chunks :
         file.chunks[j] \in DOMAIN AddedConstraint =>
           FoundByKind(AddedConstraint[file.chunks[j]][1],
                       AddedConstraint[file.chunks[j]][2])

\* C26: a line read while a dollar-quoted region is open never changes the
\* current schema, so a body line SET search_path = other; leaves the schema
\* of its statement and of the later statements what it was
C26_BodyLinesKeepSchema ==
  [][(pc = "split" /\ li' = li + 1 /\ inDollarQuote) =>
       searchPath' = searchPath]_vars

\* a statement that creates a function, which is none of the ten shapes
IsCreateFunction(stmt) ==
  HasPrefix(ToUpper(TrimSpace(stmt)), <<"CREATE", " ", "FUNCTION", " ">>)

\* C27: a statement that is itself none of the ten recognized shapes leaves
\* the model unchanged, also when its text embeds a statement of one of the
\* shapes: processing a CREATE FUNCTION statement adds no entity and changes
\* none
C27_EmbeddedStatementsIgnored ==
  [][(pc = "process" /\ si' = si + 1 /\ IsCreateFunction(results[si].stmt)) =>
       schema' = schema]_vars

\* what the first column of the table of each chunk declares
FirstColumn ==
  [IdentityByDefault |-> [DataType |-> "integer", NotNull |-> FALSE, DefaultExpr |-> "",
                          Identity |-> "BY DEFAULT", GeneratedExpr |-> ""],
   IdentityAlways    |-> [DataType |-> "bigint", NotNull |-> FALSE, DefaultExpr |-> "",
                          Identity |-> "ALWAYS", GeneratedExpr |-> ""],
   IdentityNotNull   |-> [DataType |-> "integer", NotNull |-> TRUE, DefaultExpr |-> "",
                          Identity |-> "BY DEFAULT", GeneratedExpr |-> ""],
   DefaultNotNull    |-> [DataType |-> "integer", NotNull |-> TRUE, DefaultExpr |-> "7",
                          Identity |-> "", GeneratedExpr |-> ""],
   GeneratedStored   |-> [DataType |-> "integer", NotNull |-> FALSE, DefaultExpr |-> "",
                          Identity |-> "", GeneratedExpr |-> "a + 1"]]

\* the attributes of a column that its definition declares
AttributesOf(col) ==
  [DataType |-> col.DataType, NotNull |-> col.NotNull, DefaultExpr |-> col.DefaultExpr,
   Identity |-> col.Identity, GeneratedExpr |-> col.GeneratedExpr]

\* C28: the attributes of a column are taken from its definition one by one:
\* a column with GENERATED BY DEFAULT AS IDENTITY or GENERATED ALWAYS AS
\* IDENTITY and no DEFAULT clause has that identity kind and an empty default
\* expression, and its data type ends before the identity clause; each chunk
\* of the files is a table
C28_IdentityColumnHasNoDefault ==
  pc = "done" =>
    /\ Len(schema.Tables) = Len(file.chunks)
    /\ \A k \in DOMAIN schema.Tables :
         /\ Len(schema.Tables[k].Columns) = 2
         /\ AttributesOf(schema.Tables[k].Columns[1]) = FirstColumn[file.chunks[k]]

\* the names of a sequence of checks or results, in order
CheckNames(checks) == [k \in DOMAIN checks |-> checks[k].Name]
ResultNames(rs) == [k \in DOMAIN rs |-> rs[k].CheckName]

\* the checks of a list whose category is asked for
Asked(checks, categories) ==
  SelectSeq(checks, LAMBDA c :
    categories = <<>> \/ c.Category \in {categories[k] : k \in DOMAIN categories})

\* the results of the static checks / of the live-only checks in the report
\* of a call with the categories
StaticResults(categories) ==
  SubSeq(analysis.report.Results, 1, Len(Asked(StaticChecks, categories)))
LiveOnlyResults(categories) ==
  SubSeq(analysis.report.Results, Len(Asked(StaticChecks, categories)) + 1,
         Len(analysis.report.Results))

\* C29: RunAnalyze is never ended by a panic of a check function, and when
\* it returns it returns without error a report with one result for each
\* static check whose category passes the filter, in the order of
\* StaticChecks, none of them skipped, and after them one skipped result for
\* each live-only check whose category passes the filter; the function of
\* every one of these static checks was called, and the result of a check
\* whose function panicked has Error set and no findings
C29_PanicsBecomeErrorResults ==
  /\ analysis.pc \in {"none", "checks", "returned"}
  /\ analysis.pc = "returned" =>
       /\ analysis.err = "nil"
       /\ Len(analysis.report.Results) =
            Len(Asked(StaticChecks, analysis.categories))
              + Len(Asked(SkippedChecks, analysis.categories))
       /\ ResultNames(StaticResults(analysis.categories)) =
            CheckNames(Asked(StaticChecks, analysis.categories))
       /\ ResultNames(LiveOnlyResults(analysis.categories)) =
            CheckNames(Asked(SkippedChecks, analysis.categories))
       /\ \A k \in DOMAIN StaticResults(analysis.categories) :
            ~StaticResults(analysis.categories)[k].Skipped
       /\ \A k \in DOMAIN LiveOnlyResults(analysis.categories) :
            LiveOnlyResults(analysis.categories)[k].Skipped
       /\ Len(analysis.outcomes) = Len(Asked(StaticChecks, analysis.categories))
       /\ \A k \in DOMAIN analysis.outcomes :
            analysis.outcomes[k].panic =>
              /\ analysis.report.Results[k].Error # ""
              /\ analysis.report.Results[k].Findings = <<>>

\* a call with the filter schema has returned, the function of the first of
\* its fifteen static checks panicked, and the report holds the results of
\* all fifteen and of the seven live-only checks of the category
C29_Witness ==
  /\ analysis.pc = "returned"
  /\ analysis.categories = <<"schema">>
  /\ analysis.outcomes[1].panic
  /\ analysis.report.Results[1].Error = "panic: boom"
  /\ Len(analysis.outcomes) = 15
  /\ Len(analysis.report.Results) = 22
  /\ analysis.report.Results[22].Skipped

\* the depth counter of a scan after the first k characters of a text: one
\* up at each "(", one down at each ")"
DepthAfter(text, k) == ParenBalance(SubSeq(text, 1, k))

\* the positions of the "(" of a text that the scan reaches at depth zero
OpenersAtZero(text) ==
  {k \in DOMAIN text : text[k] = "(" /\ DepthAfter(text, k - 1) = 0}

\* the positions after the first of them at which the depth is zero again
ClosersOf(text) ==
  {k \in DOMAIN text : k > Min(OpenersAtZero(text)) /\ DepthAfter(text, k) = 0}

\* the text strictly between the first "(" at depth zero and the ")" that
\* matches it, empty when there is none
BetweenFirstParens(text) ==
  IF OpenersAtZero(text) = {} THEN <<>>
  ELSE IF ClosersOf(text) = {} THEN <<>>
  ELSE SubSeq(text, Min(OpenersAtZero(text)) + 1, Min(ClosersOf(text)) - 1)

\* C30: for any text extractParenContent returns the text strictly between
\* the first opening parenthesis reached at depth zero and its matching
\* closing parenthesis, empty when there is none, and what it returns is
\* balanced: the depth counter of splitBodyParts on it is never negative and
\* ends at zero
C30_ParenContentIsBalanced ==
  ret.op = "extractParenContent" =>
    /\ ret.value = BetweenFirstParens(ret.text)
    /\ \A k \in 0..Len(ret.value) : DepthAfter(ret.value, k) >= 0
    /\ DepthAfter(ret.value, Len(ret.value)) = 0

\* a call on a text with nested parentheses and a comma inside them: the
\* content is returned whole and is one part
C30_Witness ==
  /\ ret.op = "extractParenContent"
  /\ ret.text = <<"(", "(", ",", ")", ")">>
  /\ ret.value = <<"(", ",", ")">>
  /\ ret.parts = << <<"(", ",", ")">> >>

=============================================================================
